---- MODULE Spec2Model ----
(***************************************************************************)
(* A model of conda_build/metadata.py: the permissive/strict re-parse loop *)
(* (MetaData.parse_again, MetaData.parse_until_resolved), the ordering of  *)
(* outputs (toposort) and the expansion and finalization of the outputs of *)
(* a recipe (MetaData.get_output_metadata_set, finalize_outputs_pass).     *)
(***************************************************************************)
EXTENDS Integers, Sequences, FiniteSets, TLC

(***************************************************************************)
(* Bounds of the model.                                                    *)
(***************************************************************************)
\* number of distinct jinja2 variable names a recipe text refers to
MaxJinjaNames == 2
\* the parse counters saturate at this value
MaxParses == 3

JinjaNames == 1..MaxJinjaNames

VARIABLES
    \* ---- MetaData.parse_again / MetaData.parse_until_resolved ----
    pc,                     \* position in parse_until_resolved
    md,                     \* the MetaData object (self)
    undefined_jinja_vars,   \* parse_until_resolved's local of that name
    final,                  \* parse_until_resolved's local of that name
    environ,                \* os.environ's CONDA_BUILD_STATE entry
    recorded,               \* history: the sets self.undefined_jinja_vars held
                            \*   after the last two permissive parses of the call
    n_permissive,           \* history: permissive parse_again calls that returned
    n_strict,               \* history: strict parse_again calls that were made
    call,                   \* history: the last parse_again call
    caller,                 \* history: who started the call in progress
    \* ---- toposort ----
    topo_pc,                \* "input", then "sorted" or "raised"
    output_metadata_map,    \* toposort's argument: the entries in dict order
    phase,                  \* toposort's argument
    topo_result,            \* what toposort returned
    \* ---- MetaData.get_output_metadata_set / finalize_outputs_pass ----
    set_pc,                 \* "expand", "toposort", "finalize", "pass_end",
                            \*   then "done" or "raised"
    recipe,                 \* the recipe text behind self.meta_path
    variants,               \* self.config.variants
    permit_undefined_jinja,         \* the argument of that name
    permit_unsatisfiable_variants,  \* the argument of that name
    needs_building,         \* the outputs the resolver cannot satisfy
    variant_index,          \* how many variants the first loop has done
    out_metadata_map,       \* the dict of that name, in insertion order
    conda_packages,         \* the OrderedDict of that name: the render_order
                            \*   a finalization pass iterates
    non_conda_packages,     \* the list of that name
    outputs,                \* the OrderedDict a finalization pass builds
    other_outputs,          \* self.other_outputs (<<>> while not set)
    aliased,                \* self.other_outputs is the object conda_packages
    iteration,              \* the `i` of the three passes
    position,               \* entries of render_order the pass has visited
    returned,               \* the list get_output_metadata_set returns
    raised_by,              \* the exception that ended the call
    sorted_keys,            \* history: the keys of conda_packages as built
                            \*   from toposort's result
    exited,                 \* history: the variants whose outputs raised
                            \*   SystemExit
    at_rerender,            \* history: what the last re-render of a pass saw
    at_pass_start,          \* history: render_order as the pass in progress got it
    \* ---- one call of a function that keeps no state between calls ----
    fn_pc,                  \* "called", then "returned" or "raised"
    fn_args,                \* the arguments of the call
    fn_result               \* what the call returned, or the error it raised

pur_vars == <<pc, md, undefined_jinja_vars, final, environ, recorded,
              n_permissive, n_strict, call, caller>>

topo_vars == <<topo_pc, output_metadata_map, phase, topo_result>>

set_vars == <<set_pc, recipe, variants, permit_undefined_jinja,
              permit_unsatisfiable_variants, needs_building, variant_index,
              out_metadata_map, conda_packages, non_conda_packages, outputs,
              other_outputs, aliased, iteration, position, returned, raised_by,
              sorted_keys, exited, at_rerender, at_pass_start>>

fn_vars == <<fn_pc, fn_args, fn_result>>

vars == <<pur_vars, topo_vars, set_vars, fn_vars>>

(***************************************************************************)
(* The parts of the program a specification leaves alone.                  *)
(***************************************************************************)
ResolveIdle ==
    /\ pc = "unused"
    /\ md = [meta_final |-> FALSE, meta_blanks |-> {}, undefined |-> {}, meta_path |-> TRUE]
    /\ undefined_jinja_vars = {}
    /\ final = FALSE
    /\ environ = "absent"
    /\ recorded = <<>>
    /\ n_permissive = 0
    /\ n_strict = 0
    /\ call = [pre |-> md, env_pre |-> environ, permit |-> TRUE,
               raised |-> "none", entered |-> FALSE, on_final |-> FALSE]
    /\ caller = "none"

ToposortIdle ==
    /\ topo_pc = "unused"
    /\ output_metadata_map = <<>>
    /\ phase = "build"
    /\ topo_result = <<>>

OutputSetIdle ==
    /\ set_pc = "unused"
    /\ recipe = <<>>
    /\ variants = <<>>
    /\ permit_undefined_jinja = FALSE
    /\ permit_unsatisfiable_variants = TRUE
    /\ needs_building = {}
    /\ variant_index = 0
    /\ out_metadata_map = <<>>
    /\ conda_packages = <<>>
    /\ non_conda_packages = <<>>
    /\ outputs = <<>>
    /\ other_outputs = <<>>
    /\ aliased = FALSE
    /\ iteration = 0
    /\ position = 0
    /\ returned = <<>>
    /\ raised_by = "none"
    /\ sorted_keys = <<>>
    /\ exited = {}
    /\ at_rerender = <<>>
    /\ at_pass_start = <<>>

FunctionIdle ==
    /\ fn_pc = "unused"
    /\ fn_args = <<>>
    /\ fn_result = <<>>

(***************************************************************************)
(* MetaData: the fields the re-parse loop reads and writes.                *)
(*   meta_final  meta['extra']['final'] (the `final` property)             *)
(*   meta_blanks the jinja2 names rendered blank in the text self.meta was *)
(*               parsed from; stands for the content of self.meta          *)
(*   undefined   self.undefined_jinja_vars                                 *)
(*   meta_path   whether self.meta_path is non-empty                       *)
(***************************************************************************)
MetaDataObjects ==
    [meta_final : BOOLEAN, meta_blanks : SUBSET JinjaNames,
     undefined : SUBSET JinjaNames, meta_path : BOOLEAN]

\* MetaData.final (getter)
Final(m) == m.meta_final

\* MetaData.final (setter)
SetFinalMut(m, boolean) == m
SetFinal(m, boolean) == [m EXCEPT !.meta_final = boolean]

\* what a failure inside parse_again can be
ParseErrors == {"none", "parse", "validate"}

\* the assertion that opens parse_again
FinalityAssertionMut(m) == TRUE
FinalityAssertion(m) == ~Final(m)

(***************************************************************************)
(* MetaData._get_contents followed by parse(): the text is rendered with U *)
(* the names jinja2 finds undefined.  A strict render of a text with an    *)
(* undefined name is a TemplateError, turned into sys.exit.                *)
(***************************************************************************)
RenderRaises(permit, U) == ~permit /\ U # {}

GetContents(m, permit, U) ==
    [m EXCEPT !.undefined = IF permit THEN U ELSE {}]

(***************************************************************************)
(* MetaData.parse_again as a function of the object, the flag and what the *)
(* environment supplies: U (the undefined names of this render), tf (the   *)
(* extra/final value of the re-read text) and err (where, if anywhere, the *)
(* call fails past the render).  The result is the object after the call,  *)
(* the exception raised and whether the body ran.                          *)
(***************************************************************************)
ParseAgain(m, permit, U, tf, err) ==
    IF ~FinalityAssertion(m)
    THEN [m |-> m, raised |-> "AssertionError", entered |-> FALSE]
    ELSE IF ~m.meta_path
    THEN [m |-> m, entered |-> TRUE,
          raised |-> IF err = "validate" THEN "ValueError" ELSE "none"]
    ELSE IF RenderRaises(permit, U)
    THEN [m |-> m, raised |-> "SystemExit", entered |-> TRUE]
    ELSE LET r == GetContents(m, permit, U)
             p == [r EXCEPT !.meta_final = tf,
                            !.meta_blanks = IF permit THEN U ELSE {}]
         IN  CASE err = "parse"    -> [m |-> r, raised |-> "SystemExit", entered |-> TRUE]
               [] err = "validate" -> [m |-> p, raised |-> "ValueError", entered |-> TRUE]
               [] OTHER            -> [m |-> p, raised |-> "none", entered |-> TRUE]

\* os.environ["CONDA_BUILD_STATE"] after a parse_again call: set on entry,
\* deleted in the finally clause
EnvironAfterMut(res, before) ==
    IF ~res.entered THEN before
    ELSE IF res.raised = "none" THEN "absent" ELSE "RENDER"
EnvironAfter(res, before) == IF res.entered THEN "absent" ELSE before

Saturate(n) == IF n < MaxParses THEN n + 1 ELSE n

Record(seq, s) == IF Len(seq) < 2 THEN Append(seq, s) ELSE <<seq[2], s>>

\* the bookkeeping of one parse_again call made by the model
Called(m, permit, res) ==
    /\ call' = [pre |-> m, env_pre |-> environ, permit |-> permit,
                raised |-> res.raised, entered |-> res.entered,
                on_final |-> Final(m)]
    /\ environ' = EnvironAfter(res, environ)
    /\ n_permissive' = IF permit /\ res.raised = "none"
                       THEN Saturate(n_permissive) ELSE n_permissive
    /\ n_strict' = IF ~permit THEN Saturate(n_strict) ELSE n_strict
    /\ recorded' = IF permit /\ res.raised = "none"
                   THEN Record(recorded, res.m.undefined) ELSE recorded

(***************************************************************************)
(* MetaData.parse_until_resolved, one action per statement.                *)
(***************************************************************************)
\* lines 746-749: the locals
Enter(who) ==
    /\ undefined_jinja_vars' = {}
    /\ final' = Final(md)
    /\ pc' = "first"
    /\ caller' = who
    /\ UNCHANGED <<md, environ, recorded, n_permissive, n_strict, call>>

PUR_Enter ==
    /\ UNCHANGED <<topo_vars, set_vars, fn_vars>>
    /\ pc = "idle"
    /\ Enter("parse_until_resolved")

\* finalize_outputs_pass, lines 555-558: md is the copy `om` of base_metadata;
\* it is re-parsed unless it is final
FOP_Reparse ==
    /\ UNCHANGED <<topo_vars, set_vars, fn_vars>>
    /\ pc = "idle"
    /\ IF ~Final(md)
       THEN Enter("finalize_outputs_pass")
       ELSE /\ pc' = "skipped"
            /\ caller' = "finalize_outputs_pass"
            /\ UNCHANGED <<md, undefined_jinja_vars, final, environ, recorded,
                           n_permissive, n_strict, call>>

\* a permissive parse_again followed by `self.final = final`
PermissiveParse(next_pc) ==
    \E U \in SUBSET JinjaNames, tf \in BOOLEAN, err \in ParseErrors :
        LET res == ParseAgain(md, TRUE, U, tf, err)
        IN  /\ Called(md, TRUE, res)
            /\ IF res.raised = "none"
               THEN /\ md' = SetFinal(res.m, final)
                    /\ pc' = next_pc
               ELSE /\ md' = res.m
                    /\ pc' = "raised"

\* lines 751-753: always parse again at least once
PUR_FirstParse ==
    /\ UNCHANGED <<topo_vars, set_vars, fn_vars>>
    /\ pc = "first"
    /\ PermissiveParse("while")
    /\ UNCHANGED <<undefined_jinja_vars, final, caller>>

\* line 755: the loop condition
LoopConditionMut(local, attribute) == FALSE
LoopCondition(local, attribute) == local # attribute

PUR_While ==
    /\ UNCHANGED <<topo_vars, set_vars, fn_vars>>
    /\ pc = "while"
    /\ pc' = IF LoopCondition(undefined_jinja_vars, md.undefined) THEN "body" ELSE "check"
    /\ UNCHANGED <<md, undefined_jinja_vars, final, environ, recorded,
                   n_permissive, n_strict, call, caller>>

\* lines 756-760: the loop body
PUR_Body ==
    /\ UNCHANGED <<topo_vars, set_vars, fn_vars>>
    /\ pc = "body"
    /\ undefined_jinja_vars' = md.undefined
    /\ PermissiveParse("while")
    /\ UNCHANGED <<final, caller>>

\* lines 761-763: names remain undefined
PUR_Check ==
    /\ UNCHANGED <<topo_vars, set_vars, fn_vars>>
    /\ pc = "check"
    /\ pc' = IF undefined_jinja_vars # {} THEN "sys_exit" ELSE "strict"
    /\ UNCHANGED <<md, undefined_jinja_vars, final, environ, recorded,
                   n_permissive, n_strict, call, caller>>

\* lines 766-769: always parse again at the end, too
PUR_Strict ==
    /\ UNCHANGED <<topo_vars, set_vars, fn_vars>>
    /\ pc = "strict"
    /\ \E U \in SUBSET JinjaNames, tf \in BOOLEAN, err \in ParseErrors :
          LET res == ParseAgain(md, FALSE, U, tf, err)
          IN  /\ Called(md, FALSE, res)
              /\ IF res.raised = "none"
                 THEN /\ md' = SetFinal(res.m, final)
                      /\ pc' = "done"
                 ELSE /\ md' = res.m
                      /\ pc' = "raised"
    /\ UNCHANGED <<undefined_jinja_vars, final, caller>>

\* a caller's own parse_again call (MetaData.fromstring, MetaData.__init__)
PA_Call ==
    /\ UNCHANGED <<topo_vars, set_vars, fn_vars>>
    /\ pc = "idle"
    /\ \E permit \in BOOLEAN, U \in SUBSET JinjaNames, tf \in BOOLEAN,
          err \in ParseErrors :
          LET res == ParseAgain(md, permit, U, tf, err)
          IN  /\ Called(md, permit, res)
              /\ md' = res.m
              /\ pc' = IF res.raised = "none" THEN "returned" ELSE "raised"
    /\ caller' = "parse_again"
    /\ UNCHANGED <<undefined_jinja_vars, final>>

InitResolve ==
    /\ pc = "idle"
    /\ md \in MetaDataObjects
    /\ undefined_jinja_vars = {}
    /\ final = FALSE
    /\ environ \in {"absent", "RENDER"}
    /\ recorded = <<>>
    /\ n_permissive = 0
    /\ n_strict = 0
    /\ call = [pre |-> md, env_pre |-> environ, permit |-> TRUE,
               raised |-> "none", entered |-> FALSE, on_final |-> FALSE]
    /\ caller = "none"
    /\ topo_pc = "unused"
    /\ output_metadata_map = <<>>
    /\ phase = "build"
    /\ topo_result = <<>>
    /\ set_pc = "unused"
    /\ recipe = <<>>
    /\ variants = <<>>
    /\ permit_undefined_jinja = FALSE
    /\ permit_unsatisfiable_variants = TRUE
    /\ needs_building = {}
    /\ variant_index = 0
    /\ out_metadata_map = <<>>
    /\ conda_packages = <<>>
    /\ non_conda_packages = <<>>
    /\ outputs = <<>>
    /\ other_outputs = <<>>
    /\ aliased = FALSE
    /\ iteration = 0
    /\ position = 0
    /\ returned = <<>>
    /\ raised_by = "none"
    /\ sorted_keys = <<>>
    /\ exited = {}
    /\ at_rerender = <<>>
    /\ at_pass_start = <<>>
    /\ FunctionIdle

NextResolve ==
    \/ PUR_Enter
    \/ FOP_Reparse
    \/ PUR_FirstParse
    \/ PUR_While
    \/ PUR_Body
    \/ PUR_Check
    \/ PUR_Strict
    \/ PA_Call

SpecResolve == InitResolve /\ [][NextResolve]_vars

\* the interpreter runs the call to its end: a statement that can run, runs
FairSpecResolve == SpecResolve /\ WF_vars(NextResolve)

(***************************************************************************)
(* Outputs.  An output dict (output_d) has a name, a type (an absent type  *)
(* reads as 'conda' everywhere), the 'build' list of its 'requirements'    *)
(* mapping, `script` (whether it has 'files' or 'script') and `pin`, which *)
(* stands for whatever text of the dict was rendered from the variant ("-" *)
(* when none was).  A requirement is the sequence of its space-separated   *)
(* tokens.                                                                 *)
(***************************************************************************)
OutputNames == {"a", "b"}

\* sorted() of the output names
SortedNames == <<"a", "b">>

Types == {"conda", "wheel"}

Variants == {"v1", "v2"}

Requirements == { <<"a">>, <<"b", ">=1.0">>, <<"python">> }

\* the requirement lists the model draws from
RequirementLists == {<<>>} \cup { <<r>> : r \in Requirements }

Range(seq) == { seq[i] : i \in DOMAIN seq }

\* run_dep.split(' ')[0]
FirstToken(req) == req[1]

\* output_d.get('type', 'conda') == 'conda'
IsConda(output_d) == output_d.type = "conda"

\* subpackage_pattern.match(req), lines 1412-1414: the requirement starts
\* with the output's name followed by white space or the end of the string
SubpackagePatternMatches(name, req) == FirstToken(req) = name

(***************************************************************************)
(* MetaData.get_output_metadata(output), as far as the name, the build     *)
(* requirements, the variant and the final flag of the output's metadata   *)
(* go.  The name of a non-conda output gets its type as a suffix.          *)
(*   rendered_in  history: -1 for metadata made by the expansion, else the *)
(*                iteration of the finalization pass that made the object  *)
(***************************************************************************)
PackageName(output) ==
    IF output.type # "conda"
    THEN [base |-> output.name, suffix |-> output.type]
    ELSE [base |-> output.name, suffix |-> ""]

GetOutputMetadata(output, variant, made_in) ==
    [name |-> PackageName(output),
     requirements |->
        [build |-> SelectSeq(output.requirements,
                             LAMBDA req : ~SubpackagePatternMatches(output.name, req)),
         run |-> <<>>],
     variant |-> variant,
     final |-> FALSE,
     rendered_in |-> made_in]

\* output_m.get_value('requirements/{phase}', [])
GetRequirements(output_m, ph) ==
    IF ph = "build" THEN output_m.requirements.build ELSE output_m.requirements.run

(***************************************************************************)
(* conda's _toposort(data): the keys with no dependency left, sorted, then *)
(* the keys whose dependencies are all among those, and so on; a key that  *)
(* never gets free is on a cycle, and the call raises.                     *)
(***************************************************************************)
SortedSeq(names) == SelectSeq(SortedNames, LAMBDA n : n \in names)

RECURSIVE Levels(_, _, _)
Levels(data, left, acc) ==
    LET free == { k \in left : (data[k] \ {k}) \cap left = {} }
    IN  IF free = {}
        THEN [order |-> acc, cyclic |-> left # {}]
        ELSE Levels(data, left \ free, acc \o SortedSeq(free))

CondaToposort(data) == Levels(data, DOMAIN data, <<>>)

(***************************************************************************)
(* toposort(output_metadata_map, phase), lines 465-502.                    *)
(***************************************************************************)
\* lines 476-477
ThesePackages(map) == { map[i].d.name : i \in { j \in DOMAIN map : IsConda(map[j].d) } }

\* lines 484-489: topodict[name] is set anew at every entry of that name, so
\* it ends as the dependencies of the last entry that bears the name
LastNamed(map, name) ==
    CHOOSE i \in DOMAIN map :
        /\ IsConda(map[i].d) /\ map[i].d.name = name
        /\ \A j \in DOMAIN map :
              (IsConda(map[j].d) /\ map[j].d.name = name) => j <= i

Topodict(map, ph) ==
    [name \in ThesePackages(map) |->
        { FirstToken(run_dep) : run_dep \in Range(GetRequirements(map[LastNamed(map, name)].m, ph)) }
            \cap ThesePackages(map)]

\* line 491: the enumerate() indices of the non-conda entries
Endorder(map) == { i \in DOMAIN map : ~IsConda(map[i].d) }

\* lines 493-494: the keys that bear a name of topo_order, of whatever type
KeysNamed(map, pkgname) == SelectSeq(map, LAMBDA e : e.d.name = pkgname)

RECURSIVE KeysFor(_, _)
KeysFor(map, pkgnames) ==
    IF pkgnames = <<>> THEN <<>>
    ELSE KeysNamed(map, Head(pkgnames)) \o KeysFor(map, Tail(pkgnames))

\* k['name'] == pkgname at line 498: pkgname is an element of endorder, an
\* enumerate() index, and a str never equals an int
StrEqualsInt(name, idx) == FALSE

\* lines 497-498
RECURSIVE EndorderKeys(_, _)
EndorderKeys(map, indices) ==
    IF indices = <<>> THEN <<>>
    ELSE SelectSeq(map, LAMBDA e : StrEqualsInt(e.d.name, Head(indices)))
            \o EndorderKeys(map, Tail(indices))

\* a set of ints iterates in increasing order
RECURSIVE IndexSeq(_)
IndexSeq(indices) ==
    IF indices = {} THEN <<>>
    ELSE LET least == CHOOSE i \in indices : \A j \in indices : i <= j
         IN  <<least>> \o IndexSeq(indices \ {least})

Toposort(map, ph) ==
    LET sorted == CondaToposort(Topodict(map, ph))
    IN  IF sorted.cyclic
        THEN [raised |-> TRUE, result |-> <<>>]
        ELSE [raised |-> FALSE,
              result |-> KeysFor(map, sorted.order) \o EndorderKeys(map, IndexSeq(Endorder(map)))]

(***************************************************************************)
(* toposort on its own: any map of distinct output dicts to the metadata   *)
(* get_output_metadata derives from them.                                  *)
(***************************************************************************)
\* number of entries of a map given to toposort on its own
MaxEntries == 3

OutputDicts ==
    [name : OutputNames, type : Types, requirements : RequirementLists,
     script : {TRUE}, pin : {"-"}]

RECURSIVE DistinctSeqs(_, _)
DistinctSeqs(S, n) ==
    IF n = 0 THEN {<<>>}
    ELSE LET shorter == DistinctSeqs(S, n - 1)
         IN  shorter \cup
             { Append(qx[1], qx[2]) :
                 qx \in { rx \in shorter \X S :
                             Len(rx[1]) = n - 1 /\ rx[2] \notin Range(rx[1]) } }

EntryOf(output_d) == [d |-> output_d, m |-> GetOutputMetadata(output_d, "v1", -1)]

ToposortInputs ==
    { [i \in DOMAIN q |-> EntryOf(q[i])] : q \in DistinctSeqs(OutputDicts, MaxEntries) }

InitToposort ==
    /\ topo_pc = "input"
    /\ output_metadata_map \in ToposortInputs
    /\ phase = "build"
    /\ topo_result = <<>>
    /\ set_pc = "unused"
    /\ recipe = <<>>
    /\ variants = <<>>
    /\ permit_undefined_jinja = FALSE
    /\ permit_unsatisfiable_variants = TRUE
    /\ needs_building = {}
    /\ variant_index = 0
    /\ out_metadata_map = <<>>
    /\ conda_packages = <<>>
    /\ non_conda_packages = <<>>
    /\ outputs = <<>>
    /\ other_outputs = <<>>
    /\ aliased = FALSE
    /\ iteration = 0
    /\ position = 0
    /\ returned = <<>>
    /\ raised_by = "none"
    /\ sorted_keys = <<>>
    /\ exited = {}
    /\ at_rerender = <<>>
    /\ at_pass_start = <<>>
    /\ pc = "unused"
    /\ md = [meta_final |-> FALSE, meta_blanks |-> {}, undefined |-> {}, meta_path |-> TRUE]
    /\ undefined_jinja_vars = {}
    /\ final = FALSE
    /\ environ = "absent"
    /\ recorded = <<>>
    /\ n_permissive = 0
    /\ n_strict = 0
    /\ call = [pre |-> md, env_pre |-> environ, permit |-> TRUE,
               raised |-> "none", entered |-> FALSE, on_final |-> FALSE]
    /\ caller = "none"
    /\ FunctionIdle

CallToposort ==
    /\ topo_pc = "input"
    /\ LET res == Toposort(output_metadata_map, phase)
       IN  /\ topo_pc' = IF res.raised THEN "raised" ELSE "sorted"
           /\ topo_result' = res.result
    /\ UNCHANGED <<output_metadata_map, phase, pur_vars, set_vars, fn_vars>>

NextToposort == CallToposort

SpecToposort == InitToposort /\ [][NextToposort]_vars

(***************************************************************************)
(* The recipe.  Its text declares a sequence of outputs; when it is        *)
(* `templated` the text of every output embeds the variant it is rendered  *)
(* for.  Rendering gives the document (self.meta): the top-level name and  *)
(* requirements, the 'outputs' section, and whether the requirements text  *)
(* calls pin_subpackage (which is looked for only when self.meta_path is    *)
(* set).                                                                   *)
(***************************************************************************)
\* number of outputs a recipe declares
MaxOutputs == 2

TopLevelName == "a"

\* the other output name
Other(name) == IF name = "a" THEN "b" ELSE "a"

Depends(name) == IF name = "a" THEN <<"a">> ELSE <<"b", ">=1.0">>

DeclaredOutputs ==
    UNION { { [name |-> n, type |-> "conda", requirements |-> reqs, script |-> TRUE, pin |-> "-"] :
                reqs \in { <<>>, <<Depends(Other(n))>> } }
            \cup { [name |-> n, type |-> "wheel", requirements |-> <<>>, script |-> TRUE,
                    pin |-> "-"] } :
            n \in OutputNames }

Recipes ==
    [outputs : UNION { [1..n -> DeclaredOutputs] : n \in 0..MaxOutputs },
     templated : BOOLEAN]

Render(rcp, variant) ==
    LET pin == IF rcp.templated THEN variant ELSE "-"
    IN  [name |-> TopLevelName,
         requirements |-> [build |-> <<>>, run |-> <<>>],
         outputs |-> [i \in DOMAIN rcp.outputs |-> [rcp.outputs[i] EXCEPT !.pin = pin]],
         pin_subpackage |-> FALSE,
         meta_path |-> TRUE,
         pin |-> pin]

\* output_dict_from_top_level_meta(m)
OutputDictFromTopLevelMeta(meta) ==
    [name |-> meta.name, type |-> "conda", requirements |-> meta.requirements.build,
     script |-> FALSE, pin |-> meta.pin]

\* MetaData.uses_subpackage: in_reqs is assigned anew for every output that
\* has a name, so it ends as the value for the last output
UsesSubpackage(meta) ==
    LET in_reqs ==
            /\ meta.outputs # <<>>
            /\ \E req \in Range(meta.requirements.run) :
                  FirstToken(req) = meta.outputs[Len(meta.outputs)].name
        subpackage_pin == ~in_reqs /\ meta.meta_path /\ meta.pin_subpackage
    IN  in_reqs \/ subpackage_pin

\* get_output_dicts_from_metadata(metadata)
GetOutputDictsMut(meta) ==
    LET declared == meta.outputs
        top == OutputDictFromTopLevelMeta(meta)
        all == IF declared = <<>> THEN <<top>>
               ELSE IF UsesSubpackage(meta) THEN Append(declared, top) ELSE declared
    IN  [i \in DOMAIN all |->
            IF all[i].name = meta.name /\ ~all[i].script
            THEN [all[i] EXCEPT !.requirements = meta.requirements.build]
            ELSE all[i]]
GetOutputDictsFromMetadata(meta) ==
    LET declared == meta.outputs
        top == OutputDictFromTopLevelMeta(meta)
        all == IF declared = <<>> THEN <<top>>
               ELSE IF /\ UsesSubpackage(meta)
                       /\ ~\E i \in DOMAIN declared : declared[i].name = meta.name
                    THEN Append(declared, top)
                    ELSE declared
    IN  [i \in DOMAIN all |->
            IF all[i].name = meta.name /\ ~all[i].script
            THEN [all[i] EXCEPT !.requirements = meta.requirements.build]
            ELSE all[i]]

(***************************************************************************)
(* Dicts in insertion order, as sequences.  out_metadata_map has entries   *)
(* [d, m] and is keyed by the whole output dict (HashableDict(out)); the   *)
(* OrderedDicts of the finalization have entries [key, val] with key       *)
(* (name, variant) and val the pair (output_d, metadata).                  *)
(***************************************************************************)
\* out_metadata_map[HashableDict(out)] = m
MapSet(map, out, m) ==
    IF \E i \in DOMAIN map : map[i].d = out
    THEN [i \in DOMAIN map |-> IF map[i].d = out THEN [d |-> out, m |-> m] ELSE map[i]]
    ELSE Append(map, [d |-> out, m |-> m])

\* od[key] = val
ODSet(od, key, val) ==
    IF \E i \in DOMAIN od : od[i].key = key
    THEN [i \in DOMAIN od |-> IF od[i].key = key THEN [key |-> key, val |-> val] ELSE od[i]]
    ELSE Append(od, [key |-> key, val |-> val])

\* od.update(other)
RECURSIVE ODUpdate(_, _)
ODUpdate(od, other) ==
    IF other = <<>> THEN od
    ELSE ODUpdate(ODSet(od, Head(other).key, Head(other).val), Tail(other))

Keys(od) == [i \in DOMAIN od |-> od[i].key]

Values(od) == [i \in DOMAIN od |-> od[i].val]

\* (m.name(), HashableDict(m.config.variant))
KeyOf(m) == <<m.name, m.variant>>

\* not output_d.get('type') or output_d['type'] == 'conda'
IsCondaType(output_d) == output_d.type = "conda"

(***************************************************************************)
(* MetaData.get_output_metadata_set: the loop over the variants, lines     *)
(* 1462-1476.  One action is one iteration: the copy of self is re-parsed  *)
(* for the variant (parse_until_resolved returns, or ends in SystemExit),  *)
(* its outputs are extracted and the metadata of each is stored under the  *)
(* output dict.  SystemExit out of get_output_metadata empties the map     *)
(* when undefined jinja is permitted and propagates otherwise.             *)
(***************************************************************************)
RECURSIVE StoreOutputs(_, _, _)
StoreOutputs(map, outs, variant) ==
    IF outs = <<>> THEN map
    ELSE StoreOutputs(MapSet(map, Head(outs), GetOutputMetadata(Head(outs), variant, -1)),
                      Tail(outs), variant)

ExpandOutcomes == {"stored", "parse_exit", "output_exit"}

ExpandVariant ==
    /\ set_pc = "expand"
    /\ LET variant == variants[variant_index + 1]
           outs == GetOutputDictsFromMetadata(Render(recipe, variant))
           next_pc == IF variant_index + 1 = Len(variants) THEN "toposort" ELSE "expand"
       IN  \E outcome \in ExpandOutcomes :
              CASE outcome = "stored" ->
                     /\ out_metadata_map' = StoreOutputs(out_metadata_map, outs, variant)
                     /\ variant_index' = variant_index + 1
                     /\ set_pc' = next_pc
                     /\ UNCHANGED <<raised_by, exited>>
                [] outcome = "output_exit" /\ permit_undefined_jinja ->
                     /\ out_metadata_map' = <<>>
                     /\ variant_index' = variant_index + 1
                     /\ set_pc' = next_pc
                     /\ exited' = exited \cup {variant}
                     /\ UNCHANGED raised_by
                [] OTHER ->
                     /\ set_pc' = "raised"
                     /\ raised_by' = "SystemExit"
                     /\ UNCHANGED <<out_metadata_map, variant_index, exited>>
    /\ UNCHANGED <<recipe, variants, permit_undefined_jinja, permit_unsatisfiable_variants,
                   needs_building, conda_packages, non_conda_packages, outputs,
                   other_outputs, aliased, iteration, position, returned,
                   sorted_keys, at_rerender, at_pass_start>>
    /\ UNCHANGED <<pur_vars, topo_vars, fn_vars>>

(***************************************************************************)
(* Lines 1479-1496: the build-phase toposort of the map, then the split    *)
(* into conda_packages, keyed by (name, variant), and non_conda_packages.  *)
(* With permit_undefined_jinja the call returns here.                      *)
(***************************************************************************)
RECURSIVE CondaPackages(_)
CondaPackages(order) ==
    IF order = <<>> THEN <<>>
    ELSE LET e == order[Len(order)]
             before == CondaPackages(SubSeq(order, 1, Len(order) - 1))
         IN  IF IsCondaType(e.d) THEN ODSet(before, KeyOf(e.m), e) ELSE before

NonCondaPackages(order) == SelectSeq(order, LAMBDA e : ~IsCondaType(e.d))

\* for i in range(3), line 1514
NumPasses == 3

\* the loop over range(NumPasses) is exhausted once pass i has run
LastPassMut(i) == i + 1 = NumPasses - 1
LastPass(i) == i + 1 = NumPasses

StartPass(od) == IF od = <<>> THEN "pass_end" ELSE "finalize"

SortAndCollect ==
    /\ set_pc = "toposort"
    /\ LET sorted == Toposort(out_metadata_map, "build")
           conda == CondaPackages(sorted.result)
           rest == NonCondaPackages(sorted.result)
       IN  IF sorted.raised
           THEN /\ set_pc' = "raised"
                /\ raised_by' = "CondaValueError"
                /\ UNCHANGED <<conda_packages, non_conda_packages, returned, sorted_keys,
                               at_pass_start>>
           ELSE /\ conda_packages' = conda
                /\ at_pass_start' = conda
                /\ non_conda_packages' = rest
                /\ sorted_keys' = Keys(conda)
                /\ UNCHANGED raised_by
                /\ IF permit_undefined_jinja
                   THEN /\ set_pc' = "done"
                        /\ returned' = Values(conda) \o rest
                   ELSE /\ set_pc' = StartPass(conda)
                        /\ UNCHANGED returned
    /\ UNCHANGED <<recipe, variants, permit_undefined_jinja, permit_unsatisfiable_variants,
                   needs_building, variant_index, out_metadata_map, outputs,
                   other_outputs, aliased, iteration, position, exited, at_rerender>>
    /\ UNCHANGED <<pur_vars, topo_vars, fn_vars>>

(***************************************************************************)
(* finalize_outputs_pass, lines 545-576: one action is one iteration of    *)
(* the loop over render_order.values().                                    *)
(***************************************************************************)
\* lines 552-554: base_metadata.other_outputs.update(outputs)
UpdateOtherOutputsMut(other, out) == other
UpdateOtherOutputs(other, out) == ODUpdate(other, out)

\* render.finalize_metadata(metadata): the metadata with its requirements
\* resolved and marked final
FinalizeMetadata(metadata) == [metadata EXCEPT !.final = TRUE]

\* render.finalize_metadata raises DependencyNeedsBuildingError
NeedsBuilding(metadata) == metadata.name.base \in needs_building

\* lines 568-576: what the except clause stores
KeepUnfinalizedMut(out, output_d, metadata) == out
KeepUnfinalized(out, output_d, metadata) ==
    ODSet(out, KeyOf(metadata), [d |-> output_d, m |-> metadata])

\* get_updated_output_dict_from_reparsed_metadata: the outputs of that name
UpdatedOutputDicts(original_dict, new_outputs) ==
    SelectSeq(new_outputs, LAMBDA out : out.name = original_dict.name)

FinalizeOutput ==
    /\ set_pc = "finalize"
    /\ LET entry == conda_packages[position + 1].val
           variant == entry.m.variant
           other == UpdateOtherOutputs(other_outputs, outputs)
           recipe_outputs == GetOutputDictsFromMetadata(Render(recipe, variant))
           output_ds == UpdatedOutputDicts(entry.d, recipe_outputs)
           output_d == output_ds[1]
           metadata == GetOutputMetadata(output_d, variant, iteration)
           fm == FinalizeMetadata(metadata)
           fail(exception) ==
               /\ set_pc' = "raised"
               /\ raised_by' = exception
               /\ UNCHANGED <<outputs, position>>
           continue(out) ==
               /\ outputs' = out
               /\ position' = position + 1
               /\ set_pc' = IF position + 1 = Len(conda_packages)
                            THEN "pass_end" ELSE "finalize"
               /\ UNCHANGED raised_by
       IN  /\ other_outputs' = other
           /\ conda_packages' = IF aliased THEN other ELSE conda_packages
           /\ at_rerender' = <<[other |-> other, produced |-> outputs,
                                iteration |-> iteration, position |-> position]>>
           /\ \E resolved \in BOOLEAN :
                 IF aliased /\ Len(other) # Len(conda_packages)
                 THEN fail("RuntimeError")
                 ELSE IF ~resolved
                 THEN fail("SystemExit")
                 ELSE IF Len(output_ds) # 1
                 THEN fail("AssertionError")
                 ELSE IF NeedsBuilding(metadata)
                 THEN IF ~permit_unsatisfiable_variants
                      THEN fail("DependencyNeedsBuildingError")
                      ELSE continue(KeepUnfinalized(outputs, output_d, metadata))
                 ELSE IF IsCondaType(output_d)
                 THEN continue(ODSet(outputs, KeyOf(fm), [d |-> output_d, m |-> fm]))
                 ELSE continue(outputs)
    /\ UNCHANGED <<recipe, variants, permit_undefined_jinja, permit_unsatisfiable_variants,
                   needs_building, variant_index, out_metadata_map, non_conda_packages,
                   aliased, iteration, returned, sorted_keys, exited, at_pass_start>>
    /\ UNCHANGED <<pur_vars, topo_vars, fn_vars>>

\* lines 1514-1518: the pass returns its outputs, which become conda_packages
\* and self.other_outputs; after the last pass the call returns
PassEnd ==
    /\ set_pc = "pass_end"
    /\ conda_packages' = outputs
    /\ other_outputs' = outputs
    /\ aliased' = TRUE
    /\ iteration' = iteration + 1
    /\ position' = 0
    /\ outputs' = <<>>
    /\ IF LastPass(iteration)
       THEN /\ set_pc' = "done"
            /\ returned' = Values(outputs) \o non_conda_packages
       ELSE /\ set_pc' = StartPass(outputs)
            /\ UNCHANGED returned
    /\ UNCHANGED <<recipe, variants, permit_undefined_jinja, permit_unsatisfiable_variants,
                   needs_building, variant_index, out_metadata_map, non_conda_packages,
                   raised_by, sorted_keys, exited, at_rerender>>
    /\ at_pass_start' = outputs
    /\ UNCHANGED <<pur_vars, topo_vars, fn_vars>>

VariantLists == { <<"v1">>, <<"v1", "v2">>, <<"v2", "v1">> }

Init ==
    /\ set_pc = "expand"
    /\ recipe \in Recipes
    /\ variants \in VariantLists
    /\ permit_undefined_jinja \in BOOLEAN
    /\ permit_unsatisfiable_variants \in BOOLEAN
    /\ needs_building \in SUBSET OutputNames
    /\ variant_index = 0
    /\ out_metadata_map = <<>>
    /\ conda_packages = <<>>
    /\ non_conda_packages = <<>>
    /\ outputs = <<>>
    /\ other_outputs = <<>>
    /\ aliased = FALSE
    /\ iteration = 0
    /\ position = 0
    /\ returned = <<>>
    /\ raised_by = "none"
    /\ sorted_keys = <<>>
    /\ exited = {}
    /\ at_rerender = <<>>
    /\ at_pass_start = <<>>
    /\ topo_pc = "unused"
    /\ output_metadata_map = <<>>
    /\ phase = "build"
    /\ topo_result = <<>>
    /\ pc = "unused"
    /\ md = [meta_final |-> FALSE, meta_blanks |-> {}, undefined |-> {}, meta_path |-> TRUE]
    /\ undefined_jinja_vars = {}
    /\ final = FALSE
    /\ environ = "absent"
    /\ recorded = <<>>
    /\ n_permissive = 0
    /\ n_strict = 0
    /\ call = [pre |-> md, env_pre |-> environ, permit |-> TRUE,
               raised |-> "none", entered |-> FALSE, on_final |-> FALSE]
    /\ caller = "none"
    /\ FunctionIdle

Next ==
    \/ ExpandVariant
    \/ SortAndCollect
    \/ FinalizeOutput
    \/ PassEnd

Spec == Init /\ [][Next]_vars

(***************************************************************************)
(* get_output_dicts_from_metadata on its own: a rendered document with the *)
(* top-level name, the top-level requirements and an 'outputs' section of  *)
(* named outputs.                                                          *)
(***************************************************************************)
SectionNames == OutputNames \cup {"c"}

SectionOutputs ==
    [name : SectionNames, type : {"conda"}, requirements : {<<>>},
     script : BOOLEAN, pin : {"-"}]

RunRequirements == { <<"b">>, <<"c", ">=1.0">>, <<"python">> }

RunRequirementLists ==
    {<<>>} \cup { <<r>> : r \in RunRequirements }
           \cup { <<r1, r2>> : r1 \in RunRequirements, r2 \in RunRequirements }

MetaDocuments ==
    [name : {TopLevelName},
     requirements : [build : {<<>>, << <<"python">> >>}, run : RunRequirementLists],
     outputs : UNION { [1..n -> SectionOutputs] : n \in 0..MaxOutputs },
     pin_subpackage : BOOLEAN,
     meta_path : BOOLEAN,
     pin : {"-"}]

InitOutputDicts ==
    /\ fn_pc = "called"
    /\ fn_args \in MetaDocuments
    /\ fn_result = <<>>
    /\ ResolveIdle
    /\ ToposortIdle
    /\ OutputSetIdle

CallGetOutputDicts ==
    /\ fn_pc = "called"
    /\ fn_result' = GetOutputDictsFromMetadata(fn_args)
    /\ fn_pc' = "returned"
    /\ UNCHANGED <<fn_args, pur_vars, topo_vars, set_vars>>

NextOutputDicts == CallGetOutputDicts

SpecOutputDicts == InitOutputDicts /\ [][NextOutputDicts]_vars

(***************************************************************************)
(* The content hash.  A MetaData is here the sections of self.meta that    *)
(* _get_hash_contents reads, as functions from the keys that are present   *)
(* to their values, with                                                   *)
(*   ignore_version  self.config.variant.get('ignore_version', [])         *)
(*   include_recipe  self.path and self.config.include_recipe and          *)
(*                   self.include_recipe()                                 *)
(*   files           the files of the recipe directory, sorted             *)
(*   hash_length     self.config.hash_length                               *)
(* A string that the code takes apart is the sequence of its characters.   *)
(***************************************************************************)
\* d.get(key, default)
Get(dict, key, default) == IF key \in DOMAIN dict THEN dict[key] ELSE default

\* the dict without the keys
Without(dict, keys) == [k \in DOMAIN dict \ keys |-> dict[k]]

\* the dict with dict[key] = value
With(dict, key, value) ==
    [k \in DOMAIN dict \cup {key} |-> IF k = key THEN value ELSE dict[k]]

\* exclude_pattern.match(req), lines 931-932: '{}[\s$]?.*' matches every
\* requirement that begins with the excluded name
BeginsWith(name, prefix) ==
    name = prefix \/ <<prefix, name>> \in { <<"numpy", "numpy-base">>, <<"r", "r-base">> }

ExcludePatternMatches(excludes, req) ==
    \E exc \in Range(excludes) : BeginsWith(FirstToken(req), exc)

\* lines 943-947: the keys removed from the copy of the build section
HashedBuildMut(build) == Without(build, {"number", "string", "noarch"})
HashedBuild(build) == Without(build, {"number", "string", "noarch", "noarch_python"})

\* utils.trim_empty_keys: the keys with an empty value are removed
TrimEmptyKeys(dict) == Without(dict, { k \in DOMAIN dict : dict[k] = <<>> })

\* lines 964-965: meta.yaml and run_test* are left out
HashedFile(f) == f \notin {"meta.yaml", "run_test.sh"}

\* MetaData._get_hash_contents
GetHashContents(m) ==
    LET requirements == Get(m.meta, "requirements", <<>>)
        build_reqs == Get(requirements, "build", <<>>)
        kept == IF m.ignore_version # <<>>
                THEN SelectSeq(build_reqs, LAMBDA req : ~ExcludePatternMatches(m.ignore_version, req))
                ELSE build_reqs
        filtered == With(requirements, "build", kept)
        nonempty == Without(filtered, { k \in {"build", "run"} \cap DOMAIN filtered :
                                            filtered[k] = <<>> })
        build == HashedBuild(Get(m.meta, "build", <<>>))
        source == Get(m.meta, "source", <<>>)
        sections == [requirements |-> nonempty, build |-> build, source |-> source]
        file_paths == IF m.include_recipe THEN SelectSeq(m.files, HashedFile) ELSE <<>>
    IN  [composite |-> TrimEmptyKeys(sections), file_paths |-> file_paths]

(***************************************************************************)
(* The documents the content hash is computed for.  A section is made of   *)
(* one choice per key: <<>> when the key is absent, <<value>> otherwise.   *)
(***************************************************************************)
Section(choices) ==
    [k \in { key \in DOMAIN choices : choices[key] # <<>> } |-> choices[k][1]]

\* values of build/number, build/string, build/noarch, build/noarch_python
NumberChoices == { <<>>, << <<"0">> >>, << <<"1">> >> }
StringChoices == { <<>>, << <<"p", "y", "_", "1">> >> }
NoarchChoices == { <<>>, << <<"p", "y", "t", "h", "o", "n">> >> }
NoarchPythonChoices == { <<>>, << <<"T", "r", "u", "e">> >> }
FeaturesChoices == { <<>>, << << <<"f", "1">> >> >> }

MutableBuildFields ==
    [number : NumberChoices, string : StringChoices, noarch : NoarchChoices,
     noarch_python : NoarchPythonChoices]

BuildSection(mutable, features) ==
    Section([number |-> mutable.number, string |-> mutable.string,
             noarch |-> mutable.noarch, noarch_python |-> mutable.noarch_python,
             features |-> features])

RequirementsSections ==
    { Section([build |-> b, run |-> << << <<"python">> >> >>]) :
        b \in { <<>>, << << <<"numpy", "1.15">> >> >>,
                << << <<"numpy-base", "1.15">>, <<"python">> >> >> } }

SourceSections == { <<>>, [url |-> "u"] }

RecipeFiles == <<"build.sh", "meta.yaml", "run_test.sh">>

HashedDocuments ==
    { [meta |-> [requirements |-> r, build |-> BuildSection(mutable, features), source |-> src],
       ignore_version |-> ignore,
       include_recipe |-> include,
       files |-> RecipeFiles,
       hash_length |-> 2] :
        r \in RequirementsSections, mutable \in MutableBuildFields,
        features \in FeaturesChoices, src \in SourceSections,
        ignore \in { <<>>, <<"numpy">> }, include \in BOOLEAN }

\* the same MetaData with other values, or none, for the mutable build fields
WithMutableFields(m, mutable) ==
    [m EXCEPT !.meta.build =
        BuildSection(mutable, IF "features" \in DOMAIN m.meta.build
                              THEN << m.meta.build.features >> ELSE <<>>)]

(***************************************************************************)
(* The documents build_id is computed for, with                            *)
(*   filename_hashing  self.config.filename_hashing                        *)
(***************************************************************************)
BuildIdNumbers == { <<>>, << <<"0">> >>, << <<"1">> >>, << <<"x">> >> }

BuildIdStrings ==
    { <<>>, << <<"p", "y", "_", "1">> >>, << <<"h", "a", "b", "_", "0">> >>,
      << <<"1", "_", "0">> >>, << <<"a", "b", "c">> >>,
      << <<"h", "a", "b", "c", "_", "h", "c", "d">> >>, << <<"a", "-", "1">> >> }

BuildIdFeatures == { <<>>, << << <<"f", "1">> >> >>, << << <<"1">> >> >> }

PythonRequirements ==
    { Section([build |-> b, run |-> b]) : b \in { <<>>, << << <<"python">> >> >> } }

BuildIdDocuments ==
    { [name |-> "pkg",
       meta |-> [requirements |-> r,
                 build |-> Section([number |-> number, string |-> string,
                                    features |-> features]),
                 source |-> <<>>],
       variant |-> [python |-> <<"2", ".", "7">>],
       ignore_version |-> <<>>,
       include_recipe |-> TRUE,
       files |-> RecipeFiles,
       hash_length |-> hash_length,
       filename_hashing |-> hashing] :
        r \in PythonRequirements, number \in BuildIdNumbers, string \in BuildIdStrings,
        features \in BuildIdFeatures, hash_length \in {1, 2}, hashing \in BOOLEAN }

\* the same MetaData with another build/number, or none
WithNumber(m, number) ==
    [m EXCEPT !.meta.build =
        Section([k \in DOMAIN m.meta.build \cup {"number"} |->
                    IF k = "number" THEN number ELSE << m.meta.build[k] >>])]

(***************************************************************************)
(* MetaData._hash_dependencies: 'h' and the first hash_length digits of    *)
(* the sha1 of the composite and of the listed files.  The digest is a     *)
(* fixed numbering of the hash inputs, written in hexadecimal: different   *)
(* inputs have different digests.                                          *)
(***************************************************************************)
\* number of hexadecimal digits of a digest
DigestLength == 3

HexDigits == <<"0", "1", "2", "3", "4", "5", "6", "7", "8", "9", "a", "b", "c", "d", "e", "f">>

RECURSIVE SeqOfSet(_)
SeqOfSet(S) ==
    IF S = {} THEN <<>>
    ELSE LET x == CHOOSE y \in S : TRUE IN <<x>> \o SeqOfSet(S \ {x})

AllHashInputs ==
    SeqOfSet({ GetHashContents(m) : m \in HashedDocuments \cup BuildIdDocuments })

RECURSIVE Power(_, _)
Power(b, n) == IF n = 0 THEN 1 ELSE b * Power(b, n - 1)

\* hashlib.sha1(...).hexdigest()
HexDigest(input) ==
    LET number == CHOOSE i \in DOMAIN AllHashInputs : AllHashInputs[i] = input
    IN  [i \in 1..DigestLength |->
            HexDigits[((number \div Power(16, i - 1)) % 16) + 1]]

\* s[:n]
Prefix(str, n) == SubSeq(str, 1, IF n < Len(str) THEN n ELSE Len(str))

HashDependencies(m) ==
    Prefix(<<"h">> \o HexDigest(GetHashContents(m)), m.hash_length + 1)

InitHash ==
    /\ fn_pc = "called"
    /\ \E m \in HashedDocuments, mutable \in MutableBuildFields :
          fn_args = <<m, WithMutableFields(m, mutable)>>
    /\ fn_result = <<>>
    /\ ResolveIdle
    /\ ToposortIdle
    /\ OutputSetIdle

CallHashDependencies ==
    /\ fn_pc = "called"
    /\ fn_result' = [i \in DOMAIN fn_args |->
                        [contents |-> GetHashContents(fn_args[i]),
                         hash |-> HashDependencies(fn_args[i])]]
    /\ fn_pc' = "returned"
    /\ UNCHANGED <<fn_args, pur_vars, topo_vars, set_vars>>

NextHash == CallHashDependencies

SpecHash == InitHash /\ [][NextHash]_vars

(***************************************************************************)
(* Strings as character sequences: the operations the build string code    *)
(* applies to them.                                                        *)
(***************************************************************************)
Digits == <<"0", "1", "2", "3", "4", "5", "6", "7", "8", "9">>

IsDigit(c) == c \in Range(Digits)

DigitValue(c) == (CHOOSE i \in DOMAIN Digits : Digits[i] = c) - 1

\* int(s) succeeds: an optional sign and decimal digits
IsInt(str) ==
    LET digits == IF str # <<>> /\ Head(str) \in {"+", "-"} THEN Tail(str) ELSE str
    IN  digits # <<>> /\ \A i \in DOMAIN digits : IsDigit(digits[i])

RECURSIVE NatOf(_)
NatOf(digits) ==
    IF digits = <<>> THEN 0
    ELSE 10 * NatOf(SubSeq(digits, 1, Len(digits) - 1)) + DigitValue(digits[Len(digits)])

\* int(s)
IntOf(str) ==
    IF Head(str) = "-" THEN 0 - NatOf(Tail(str))
    ELSE IF Head(str) = "+" THEN NatOf(Tail(str))
    ELSE NatOf(str)

RECURSIVE NatStr(_)
NatStr(n) ==
    IF n < 10 THEN <<Digits[n + 1]>> ELSE NatStr(n \div 10) \o <<Digits[(n % 10) + 1]>>

\* '{0}'.format(n), str(n)
IntStr(n) == IF n < 0 THEN <<"-">> \o NatStr(0 - n) ELSE NatStr(n)

\* ''.join(strs)
RECURSIVE Concat(_)
Concat(strs) == IF strs = <<>> THEN <<>> ELSE Head(strs) \o Concat(Tail(strs))

\* sep.join(strs)
RECURSIVE Join(_, _)
Join(sep, strs) ==
    IF strs = <<>> THEN <<>>
    ELSE IF Len(strs) = 1 THEN strs[1]
    ELSE strs[1] \o sep \o Join(sep, Tail(strs))

\* s.split(sep) for a separator of one character
RECURSIVE Split(_, _)
Split(str, sep) ==
    IF \A i \in DOMAIN str : str[i] # sep THEN <<str>>
    ELSE LET at == CHOOSE i \in DOMAIN str :
                       str[i] = sep /\ \A j \in 1..(i - 1) : str[j] # sep
         IN  <<SubSeq(str, 1, at - 1)>> \o Split(SubSeq(str, at + 1, Len(str)), sep)

\* s.rsplit(sep, 1)
RSplitOnce(str, sep) ==
    IF \A i \in DOMAIN str : str[i] # sep THEN <<str>>
    ELSE LET at == CHOOSE i \in DOMAIN str :
                       str[i] = sep /\ \A j \in (i + 1)..Len(str) : str[j] # sep
         IN  <<SubSeq(str, 1, at - 1), SubSeq(str, at + 1, Len(str))>>

\* seq[:n]
Take(seq, n) == SubSeq(seq, 1, IF n < Len(seq) THEN n ELSE Len(seq))

(***************************************************************************)
(* build_string_from_metadata.  The MetaData has, besides the sections,    *)
(*   name     self.name()                                                  *)
(*   variant  self.config.variant, from package names to versions          *)
(* A requirement is the sequence of its tokens; conda's MatchSpec gives it *)
(* a name, and a version when there is a second token.                     *)
(***************************************************************************)
\* MetaData.build_number
BuildNumber(m) ==
    LET number == Get(m.meta.build, "number", <<>>)
    IN  IF IsInt(number) THEN <<IntOf(number)>> ELSE <<>>

\* MatchSpec(spec)
MatchSpec(spec) == [name |-> spec[1], version |-> IF Len(spec) >= 2 THEN spec[2] ELSE ""]

\* MetaData.ms_depends(typ): the specs of requirements/typ
MsDepends(m, typ) ==
    LET reqs == Get(m.meta.requirements, typ, <<>>)
    IN  [i \in DOMAIN reqs |-> MatchSpec(reqs[i])]

\* ms_depends raises when the package depends on itself
MsDependsRaises(m, typ) ==
    \E req \in Range(Get(m.meta.requirements, typ, <<>>)) : MatchSpec(req).name = m.name

\* the (s, names, places) of line 406-407
VersionTags ==
    << [s |-> <<"n", "p">>, names |-> <<"numpy">>, places |-> 2],
       [s |-> <<"p", "y">>, names |-> <<"python">>, places |-> 2],
       [s |-> <<"p", "l">>, names |-> <<"perl">>, places |-> 2],
       [s |-> <<"l", "u", "a">>, names |-> <<"lua">>, places |-> 2],
       [s |-> <<"r">>, names |-> <<"r", "r-base">>, places |-> 3] >>

\* _n.replace('-', '_')
ReplaceDash(name) == IF name = "r-base" THEN "r_base" ELSE name

\* lines 419-425: the first version the variant has for a name of the tag
RECURSIVE FirstVersion(_, _)
FirstVersion(variant, pkg_names) ==
    IF pkg_names = <<>> THEN <<>>
    ELSE LET variant_version == Get(variant, ReplaceDash(Head(pkg_names)), <<>>)
         IN  IF variant_version # <<>> \/ Len(pkg_names) = 1 THEN variant_version
             ELSE FirstVersion(variant, Tail(pkg_names))

VariantVersion(m, tag) ==
    FirstVersion(m.variant,
                 tag.names \o SelectSeq(tag.names, LAMBDA n : ReplaceDash(n) # n))

\* line 412: `name in build_pkg_names` is part of the condition
InBuildTooMut(m, name) == TRUE
InBuildToo(m, name) == \E ms \in Range(MsDepends(m, "build")) : ms.name = name

\* lines 409-426: what one run requirement and one name of a tag add to res
TagFor(m, tag, ms, name) ==
    IF ~(ms.name = name /\ InBuildToo(m, name)) THEN <<>>
    ELSE IF name = "numpy" /\ ms.version = "" THEN <<>>
    ELSE IF \/ Get(m.meta.build, "noarch", <<>>) = <<"p", "y", "t", "h", "o", "n">> /\ name = "python"
            \/ Get(m.meta.build, "noarch_python", <<>>) # <<>> /\ name = "python"
    THEN tag.s
    ELSE tag.s \o Concat(Take(Split(VariantVersion(m, tag), "."), tag.places))

TagsFor(m, tag) ==
    LET run == MsDepends(m, "run")
    IN  Concat([i \in DOMAIN run |->
                   Concat([j \in DOMAIN tag.names |-> TagFor(m, tag, run[i], tag.names[j])])])

\* line 431: the build number, 0 when build_number() is empty or zero
NumberSuffixMut(m) == IntStr(0)
NumberSuffix(m) ==
    LET number == BuildNumber(m)
    IN  IntStr(IF number # <<>> /\ number[1] # 0 THEN number[1] ELSE 0)

\* lines 401-432: the synthesised build string
SynthesisedBuildString(m) ==
    LET res == Concat([i \in DOMAIN VersionTags |-> TagsFor(m, VersionTags[i])])
        features == Get(m.meta.build, "features", <<>>)
    IN  res \o (IF res # <<>> THEN <<"_">> ELSE <<>>)
            \o (IF features # <<>> THEN Join(<<"_">>, features) \o <<"_">> ELSE <<>>)
            \o NumberSuffix(m)

\* build_string_from_metadata(metadata)
BuildStringFromMetadata(m) ==
    IF Get(m.meta.build, "string", <<>>) # <<>>
    THEN m.meta.build.string
    ELSE SynthesisedBuildString(m)

(***************************************************************************)
(* MetaData.build_id.                                                      *)
(***************************************************************************)
\* check_bad_chrs(s, 'build/string')
BadChrs ==
    {"=", "@", "#", "$", "%", "^", "&", "*", ":", ";", "\"", "'", "\\", "|", "<", ">",
     "?", "/", " ", "-", "!"}

HasBadChrs(str) == \E i \in DOMAIN str : str[i] \in BadChrs

IsHex(c) == c \in Range(HexDigits)

\* 'h[0-9a-f]{n}' matches at position i of the string
SegmentAt(str, i, n) ==
    /\ i + n <= Len(str)
    /\ str[i] = "h"
    /\ \A k \in 1..n : IsHex(str[i + k])

\* re.findall('h[0-9a-f]{n}', s)
HasSegment(str, n) == \E i \in DOMAIN str : SegmentAt(str, i, n)

\* re.sub('h[0-9a-f]{n}', repl, s), from position i on: the matches are taken
\* from left to right and do not overlap
RECURSIVE SubFrom(_, _, _, _)
SubFrom(str, i, n, repl) ==
    IF i > Len(str) THEN <<>>
    ELSE IF SegmentAt(str, i, n) THEN repl \o SubFrom(str, i + n + 1, n, repl)
    ELSE <<str[i]>> \o SubFrom(str, i + 1, n, repl)

\* lines 998-999: the part of rsplit after the underscore is joined on again
JoinRest(out, ret) == IF Len(ret) > 1 THEN Join(<<"_">>, <<out>> \o Tail(ret)) ELSE out

\* lines 992-1003
StampHash(out, hash, n) ==
    IF ~HasSegment(out, n)
    THEN LET ret == RSplitOnce(out, "_")
         IN  JoinRest(IF IsInt(ret[1]) THEN hash \o <<"_">> \o ret[1] ELSE ret[1] \o hash, ret)
    ELSE SubFrom(out, 1, n, hash)

\* build_id ends in sys.exit (check_bad_chrs) or RuntimeError (ms_depends)
BuildIdRaises(m) ==
    LET out == Get(m.meta.build, "string", <<>>)
    IN  IF out # <<>> THEN HasBadChrs(out)
        ELSE MsDependsRaises(m, "build") \/ MsDependsRaises(m, "run")

BuildId(m) ==
    LET out == BuildStringFromMetadata(m)
    IN  IF m.filename_hashing
        THEN StampHash(out, HashDependencies(m), m.hash_length)
        ELSE out

InitBuildId ==
    /\ fn_pc = "called"
    /\ \E m \in BuildIdDocuments, number \in BuildIdNumbers :
          fn_args = <<m, WithNumber(m, number)>>
    /\ fn_result = <<>>
    /\ ResolveIdle
    /\ ToposortIdle
    /\ OutputSetIdle

CallBuildId ==
    /\ fn_pc = "called"
    /\ IF BuildIdRaises(fn_args[1])
       THEN /\ fn_pc' = "raised"
            /\ fn_result' = <<>>
       ELSE /\ fn_pc' = "returned"
            /\ fn_result' = [i \in DOMAIN fn_args |->
                                [build_id |-> BuildId(fn_args[i]),
                                 hash |-> HashDependencies(fn_args[i])]]
    /\ UNCHANGED <<fn_args, pur_vars, topo_vars, set_vars>>

NextBuildId == CallBuildId

SpecBuildId == InitBuildId /\ [][NextBuildId]_vars

(***************************************************************************)
(* build_string_from_metadata on its own: recipes without build/string.    *)
(***************************************************************************)
RunLists ==
    { <<>>, << <<"numpy">> >>, << <<"numpy", "1.15">> >>, << <<"python">> >>,
      << <<"python">>, <<"numpy", "1.15">> >>,
      << <<"python", ">=2.7">>, <<"python", "<3">> >>,
      << <<"r-base">>, <<"zlib">> >> }

BuildLists ==
    { <<>>, << <<"numpy">> >>, << <<"python">> >>, << <<"numpy">>, <<"python">> >>,
      << <<"r-base">> >> }

BuildStringVariants ==
    { [numpy |-> <<"1", ".", "1", "5">>, python |-> <<"2", ".", "7", ".", "1">>,
       r_base |-> <<"3", ".", "4", ".", "1">>],
      [numpy |-> <<"1", ".", "1", "5">>] }

BuildStringNumbers == { <<>>, << <<"0">> >>, << <<"7">> >>, << <<"x">> >> }

BuildStringFeatures ==
    { <<>>, << << <<"f", "1">> >> >>, << << <<"f", "1">>, <<"f", "2">> >> >> }

BuildStringDocuments ==
    { [name |-> name,
       meta |-> [requirements |-> Section([build |-> <<b>>, run |-> <<r>>]),
                 build |-> Section([number |-> number, features |-> features,
                                    noarch |-> noarch, noarch_python |-> noarch_python])],
       variant |-> variant] :
        name \in {"pkg", "numpy"}, b \in BuildLists, r \in RunLists,
        number \in BuildStringNumbers, features \in BuildStringFeatures,
        noarch \in NoarchChoices, noarch_python \in NoarchPythonChoices,
        variant \in BuildStringVariants }

InitBuildString ==
    /\ fn_pc = "called"
    /\ fn_args \in BuildStringDocuments
    /\ fn_result = <<>>
    /\ ResolveIdle
    /\ ToposortIdle
    /\ OutputSetIdle

CallBuildString ==
    /\ fn_pc = "called"
    /\ IF MsDependsRaises(fn_args, "build") \/ MsDependsRaises(fn_args, "run")
       THEN /\ fn_pc' = "raised"
            /\ fn_result' = <<>>
       ELSE /\ fn_pc' = "returned"
            /\ fn_result' = BuildStringFromMetadata(fn_args)
    /\ UNCHANGED <<fn_args, pur_vars, topo_vars, set_vars>>

NextBuildString == CallBuildString

SpecBuildString == InitBuildString /\ [][NextBuildString]_vars

(***************************************************************************)
(* eval_selector(selector_string, namespace).  The selector is the         *)
(* sequence of its space-separated words, each a sequence of characters;   *)
(* the namespace maps names to booleans.  eval() is Python's, for          *)
(* expressions of names, True, False, not, and, or.                        *)
(***************************************************************************)
KwNot == <<"n", "o", "t">>
KwAnd == <<"a", "n", "d">>
KwOr == <<"o", "r">>
LitTrue == <<"T", "r", "u", "e">>
LitFalse == <<"F", "a", "l", "s", "e">>

\* the words between the occurrences of a keyword
SplitWords(words, keyword) == Split(words, keyword)

\* a not_test: any number of `not`, then one name or literal
IsNotTest(words) ==
    /\ words # <<>>
    /\ \A i \in 1..(Len(words) - 1) : words[i] = KwNot
    /\ words[Len(words)] \notin {KwNot, KwAnd, KwOr}

\* the expression compiles
Compiles(words) ==
    \A group \in Range(SplitWords(words, KwOr)) :
        \A test \in Range(SplitWords(group, KwAnd)) : IsNotTest(test)

Value(b) == [kind |-> "value", value |-> b, name |-> <<>>]

NameError(name) == [kind |-> "NameError", value |-> FALSE, name |-> name]

EvalAtom(word, namespace) ==
    IF word = LitTrue THEN Value(TRUE)
    ELSE IF word = LitFalse THEN Value(FALSE)
    ELSE IF word \in DOMAIN namespace THEN Value(namespace[word])
    ELSE NameError(word)

EvalNotTest(test, namespace) ==
    LET atom == EvalAtom(test[Len(test)], namespace)
    IN  IF atom.kind = "NameError" THEN atom
        ELSE Value(IF (Len(test) - 1) % 2 = 1 THEN ~atom.value ELSE atom.value)

\* a and b and ...: from left to right, stopping at the first false operand
RECURSIVE EvalAnd(_, _)
EvalAnd(tests, namespace) ==
    LET first == EvalNotTest(Head(tests), namespace)
    IN  IF first.kind = "NameError" \/ ~first.value \/ Len(tests) = 1 THEN first
        ELSE EvalAnd(Tail(tests), namespace)

\* a or b or ...: from left to right, stopping at the first true operand
RECURSIVE EvalOr(_, _)
EvalOr(groups, namespace) ==
    LET first == EvalAnd(SplitWords(Head(groups), KwAnd), namespace)
    IN  IF first.kind = "NameError" \/ first.value \/ Len(groups) = 1 THEN first
        ELSE EvalOr(Tail(groups), namespace)

\* eval(selector_string, namespace, {})
Eval(words, namespace) ==
    IF ~Compiles(words) THEN [kind |-> "SyntaxError", value |-> FALSE, name |-> <<>>]
    ELSE EvalOr(SplitWords(words, KwOr), namespace)

\* str.startswith at position i
OccursAt(str, i, old) ==
    i + Len(old) - 1 <= Len(str) /\ SubSeq(str, i, i + Len(old) - 1) = old

\* s.replace(old, new), from position i on
RECURSIVE ReplaceFrom(_, _, _, _)
ReplaceFrom(str, i, old, new) ==
    IF i > Len(str) THEN <<>>
    ELSE IF OccursAt(str, i, old) THEN new \o ReplaceFrom(str, i + Len(old), old, new)
    ELSE <<str[i]>> \o ReplaceFrom(str, i + 1, old, new)

\* selector_string.replace(missing_var, "False"): a name has no space, so
\* the occurrences lie within the words
ReplaceMissing(words, missing_var) ==
    [i \in DOMAIN words |-> ReplaceFrom(words[i], 1, missing_var, LitFalse)]

SelectorNames == { <<"w", "i", "n">>, <<"w", "i", "n", "3", "2">>, <<"x">> }

Namespaces == UNION { [known -> BOOLEAN] : known \in SUBSET SelectorNames }

Operand == { <<name>> : name \in SelectorNames } \cup { <<KwNot, name>> : name \in SelectorNames }

Selectors ==
    Operand \cup { left \o <<op>> \o right : left \in Operand, op \in {KwAnd, KwOr},
                                             right \in Operand }

InitEvalSelector ==
    /\ fn_pc = "called"
    /\ fn_args \in [selector_string : Selectors, namespace : Namespaces]
    /\ fn_result = [string |-> fn_args.selector_string, value |-> FALSE]
    /\ ResolveIdle
    /\ ToposortIdle
    /\ OutputSetIdle

\* one activation of eval_selector: eval returns, or raises NameError and the
\* function calls itself on the string with the name replaced, or raises
\* another error, which propagates
EvalSelector ==
    /\ fn_pc = "called"
    /\ LET outcome == Eval(fn_result.string, fn_args.namespace)
       IN  CASE outcome.kind = "value" ->
                  /\ fn_pc' = "returned"
                  /\ fn_result' = [fn_result EXCEPT !.value = outcome.value]
             [] outcome.kind = "NameError" ->
                  /\ fn_pc' = "called"
                  /\ fn_result' = [fn_result EXCEPT
                                      !.string = ReplaceMissing(fn_result.string, outcome.name)]
             [] OTHER ->
                  /\ fn_pc' = "raised"
                  /\ UNCHANGED fn_result
    /\ UNCHANGED <<fn_args, pur_vars, topo_vars, set_vars>>

NextEvalSelector == EvalSelector

SpecEvalSelector == InitEvalSelector /\ [][NextEvalSelector]_vars

(***************************************************************************)
(* select_lines(data, namespace).  data is the sequence of its lines       *)
(* (data.splitlines()), each a sequence of characters.                     *)
(***************************************************************************)
\* eval_selector as a function: the value, or the error that leaves it
RECURSIVE EvalSelectorValue(_, _)
EvalSelectorValue(words, namespace) ==
    LET outcome == Eval(words, namespace)
    IN  IF outcome.kind = "NameError"
        THEN EvalSelectorValue(ReplaceMissing(words, outcome.name), namespace)
        ELSE outcome

\* the words of an expression, which Python separates at the spaces
Words(str) == SelectSeq(Split(str, " "), LAMBDA word : word # <<>>)

\* line.rstrip()
RECURSIVE RStrip(_)
RStrip(str) ==
    IF str # <<>> /\ str[Len(str)] = " " THEN RStrip(SubSeq(str, 1, Len(str) - 1)) ELSE str

\* line.lstrip()
RECURSIVE LStrip(_)
LStrip(str) == IF str # <<>> /\ str[1] = " " THEN LStrip(Tail(str)) ELSE str

\* \[([^\[\]]+)\] matches at p and ends at q
BracketsAt(line, p, q) ==
    /\ p + 1 < q
    /\ q <= Len(line)
    /\ line[p] = "["
    /\ line[q] = "]"
    /\ \A k \in (p + 1)..(q - 1) : line[k] \notin {"[", "]"}

\* \s*(#.*)?\[([^\[\]]+)\](?(2).*)$ matches what follows the first i
\* characters, with the brackets at p and q: after the white space comes
\* either a comment, whose greedy .* leaves the last pair of brackets to the
\* selector, or a pair of brackets that ends the line
RestMatches(line, i, p, q) ==
    LET j == CHOOSE k \in (i + 1)..(Len(line) + 1) :
                 /\ \A l \in (i + 1)..(k - 1) : line[l] = " "
                 /\ k <= Len(line) => line[k] # " "
    IN  /\ j <= Len(line)
        /\ BracketsAt(line, p, q)
        /\ IF line[j] = "#"
           THEN /\ p > j
                /\ \A p2 \in (p + 1)..Len(line), q2 \in 1..Len(line) : ~BracketsAt(line, p2, q2)
           ELSE p = j /\ q = Len(line)

\* sel_pat.match(line): (.+?) takes the fewest characters that let the rest
\* match
SelPatMatch(line) ==
    LET ends == { i \in 1..Len(line) :
                    \E p, q \in 1..Len(line) : RestMatches(line, i, p, q) }
    IN  IF ends = {} THEN [matched |-> FALSE, group1 |-> <<>>, group3 |-> <<>>]
        ELSE LET i == CHOOSE e \in ends : \A e2 \in ends : e <= e2
                 pq == CHOOSE pq \in (1..Len(line)) \X (1..Len(line)) :
                           RestMatches(line, i, pq[1], pq[2])
             IN  [matched |-> TRUE,
                  group1 |-> SubSeq(line, 1, i),
                  group3 |-> SubSeq(line, pq[1] + 1, pq[2] - 1)]

\* one turn of the loop of select_lines: the lines the line contributes, or
\* the exit
SelectLine(raw, namespace) ==
    LET line == RStrip(raw)
        trailing_quote == IF line # <<>> /\ line[Len(line)] \in {"'", "\""}
                          THEN <<line[Len(line)]>> ELSE <<>>
        m == SelPatMatch(line)
        value == EvalSelectorValue(Words(m.group3), namespace)
    IN  IF LStrip(line) # <<>> /\ LStrip(line)[1] = "#" THEN [exit |-> FALSE, lines |-> <<>>]
        ELSE IF ~m.matched THEN [exit |-> FALSE, lines |-> <<line>>]
        ELSE IF value.kind # "value" THEN [exit |-> TRUE, lines |-> <<>>]
        ELSE IF value.value THEN [exit |-> FALSE, lines |-> <<m.group1 \o trailing_quote>>]
        ELSE [exit |-> FALSE, lines |-> <<>>]

RECURSIVE SelectLines(_, _)
SelectLines(data, namespace) ==
    IF data = <<>> THEN [exit |-> FALSE, lines |-> <<>>]
    ELSE LET first == SelectLine(Head(data), namespace)
             rest == SelectLines(Tail(data), namespace)
         IN  IF first.exit \/ rest.exit THEN [exit |-> TRUE, lines |-> <<>>]
             ELSE [exit |-> FALSE, lines |-> first.lines \o rest.lines]

\* '\n'.join(lines) + '\n'
JoinLines(lines) == Join(<<"\n">>, lines) \o <<"\n">>

LineContents ==
    { <<"-", " ", "f">>, <<"-", " ", "f", "#", "g">>, <<"-", " ", "'", "f">>,
      <<"#", " ", "f">>, <<" ", "-", "f">> }

LineGaps == { <<>>, <<" ", " ">> }

LineComments == { <<>>, <<"#", " ">>, <<"#", " ", "n", " ">> }

LineSelectors ==
    { <<>>, <<"[", "w", "i", "n", "]">>, <<"[", "n", "o", "t", " ", "w", "i", "n", "]">>,
      <<"[", "x", " ", "o", "r", " ", "w", "i", "n", "]">>,
      <<"[", "w", "i", "n", " ", "x", "]">> }

LineEnds == { <<>>, <<"'">>, <<" ", "n">>, <<" ">> }

Lines ==
    { content \o gap \o comment \o selector \o end :
        content \in LineContents, gap \in LineGaps, comment \in LineComments,
        selector \in LineSelectors, end \in LineEnds }

\* a line without selector
PlainLine == <<"-", " ", "g">>

SelectData == { <<line>> : line \in Lines } \cup { <<PlainLine, line>> : line \in Lines }

SelectNamespaces == { ns \in Namespaces : DOMAIN ns \subseteq { <<"w", "i", "n">> } }

InitSelectLines ==
    /\ fn_pc = "called"
    /\ fn_args \in [data : SelectData, namespace : SelectNamespaces]
    /\ fn_result = <<>>
    /\ ResolveIdle
    /\ ToposortIdle
    /\ OutputSetIdle

CallSelectLines ==
    /\ fn_pc = "called"
    /\ LET selected == SelectLines(fn_args.data, fn_args.namespace)
       IN  IF selected.exit
           THEN fn_pc' = "exited" /\ UNCHANGED fn_result
           ELSE fn_pc' = "returned" /\ fn_result' = JoinLines(selected.lines)
    /\ UNCHANGED <<fn_args, pur_vars, topo_vars, set_vars>>

NextSelectLines == CallSelectLines

SpecSelectLines == InitSelectLines /\ [][NextSelectLines]_vars

(***************************************************************************)
(* parse(data, config, path).  yaml's BaseLoader makes a tree of str, list *)
(* and dict; a value of the tree is its class and what it holds: the       *)
(* characters of a str, the elements of a list, the items of a dict.       *)
(***************************************************************************)
Str(chars) == [str |-> chars]

List(elements) == [list |-> elements]

Dict(items) == [dict |-> items]

NoneValue == [NoneType |-> <<>>]

\* value.__class__.__name__
ClassOf(value) == CHOOSE class \in DOMAIN value : TRUE

\* what the value holds
ValueOf(value) == value[ClassOf(value)]

\* not value
IsFalsy(value) == DOMAIN ValueOf(value) = {}

\* hasattr(value, 'keys'), isinstance(value, dict)
IsDict(value) == ClassOf(value) = "dict"

\* the sections of FIELDS that the documents hold
Fields == {"package", "source", "build"}

\* lines 232-233
EmptyAsDict(value) == IF IsFalsy(value) THEN Dict(<<>>) ELSE value

\* lines 235-243: the field passes the test of its class
FieldPasses(field, value) ==
    IF field = "source" THEN IsDict(value) \/ ClassOf(value) = "list" ELSE IsDict(value)

\* ensure_valid_fields raises
PinDependsRaises(res) ==
    /\ "build" \in DOMAIN res
    /\ "pin_depends" \in DOMAIN ValueOf(res["build"])
    /\ ValueOf(ValueOf(res["build"])["pin_depends"])
          \notin { <<>>, <<"r", "e", "c", "o", "r", "d">>, <<"s", "t", "r", "i", "c", "t">> }

\* str.lower() on the letters the documents hold
Lower(chars) == [i \in DOMAIN chars |-> IF chars[i] = "N" THEN "n" ELSE chars[i]]

\* ensure_valid_noarch_value raises
NoarchValueRaises(res) ==
    /\ "build" \in DOMAIN res
    /\ "noarch" \in DOMAIN ValueOf(res["build"])
    /\ Lower(ValueOf(ValueOf(res["build"])["noarch"])) = <<"n", "o", "n", "e">>

GitRevTags == <<"git_rev", "git_branch", "git_tag">>

\* bool(source_meta.get(tag, text_type()))
HasRevTag(source_meta, tag) == tag \in DOMAIN source_meta /\ ~IsFalsy(source_meta[tag])

\* _git_clean exits: more than one of the tags is set
GitCleanExits(source_meta) ==
    Cardinality({ i \in DOMAIN GitRevTags : HasRevTag(source_meta, GitRevTags[i]) }) > 1

\* lines 338-340: the message names the tags that are set
GitCleanMessage(source_meta) ==
    SelectSeq(GitRevTags, LAMBDA tag : HasRevTag(source_meta, tag))

\* _git_clean, lines 343-353
GitCleanMut(source_meta) ==
    IF HasRevTag(source_meta, "git_tag")
    THEN With(source_meta, "git_rev", source_meta["git_tag"])
    ELSE IF HasRevTag(source_meta, "git_branch")
    THEN With(source_meta, "git_rev", source_meta["git_branch"])
    ELSE source_meta
GitClean(source_meta) ==
    LET branch == IF HasRevTag(source_meta, "git_branch")
                  THEN With(source_meta, "git_rev", source_meta["git_branch"])
                  ELSE source_meta
        tag == IF HasRevTag(source_meta, "git_tag")
               THEN With(branch, "git_rev", source_meta["git_tag"])
               ELSE branch
    IN  Without(tag, {"git_branch", "git_tag"})

\* the mappings that sanitize hands to _git_clean
SourceMetas(res) ==
    IF "source" \notin DOMAIN res THEN <<>>
    ELSE IF IsDict(res["source"]) THEN <<res["source"]>>
    ELSE ValueOf(res["source"])

\* source_meta.get on something that is no dict: AttributeError
GitCleanFails(res) == \E i \in DOMAIN SourceMetas(res) : ~IsDict(SourceMetas(res)[i])

SanitizeExits(res) ==
    \E i \in DOMAIN SourceMetas(res) :
        /\ \A j \in 1..i : IsDict(SourceMetas(res)[j])
        /\ GitCleanExits(ValueOf(SourceMetas(res)[i]))

\* lines 304-314 of sanitize
CleanSource(res) ==
    IF "source" \notin DOMAIN res THEN res
    ELSE IF IsDict(res["source"])
    THEN With(res, "source", Dict(GitClean(ValueOf(res["source"]))))
    ELSE With(res, "source",
              List([i \in DOMAIN ValueOf(res["source"]) |->
                        Dict(GitClean(ValueOf(ValueOf(res["source"])[i])))]))

\* 'None' in value
HasNone(chars) == \E i \in DOMAIN chars : OccursAt(chars, i, <<"N", "o", "n", "e">>)

\* 'None' in i, for an element of a list: a part of a str, a key of a dict,
\* an element of a list
NoneIn(element) ==
    IF ClassOf(element) = "str" THEN HasNone(ValueOf(element))
    ELSE IF IsDict(element) THEN "None" \in DOMAIN ValueOf(element)
    ELSE \E i \in DOMAIN ValueOf(element) : ValueOf(element)[i] = Str(<<"N", "o", "n", "e">>)

\* utils.trim_empty_keys: the keys whose value is an empty list, str or dict,
\* or None, are removed
TrimEmptyValues(dict) == Without(dict, { k \in DOMAIN dict : IsFalsy(dict[k]) })

\* _trim_None_strings
RECURSIVE TrimNoneStrings(_)
TrimNoneStrings(meta_dict) ==
    LET Trimmed(value) ==
            IF IsDict(value) THEN Dict(TrimNoneStrings(ValueOf(value)))
            ELSE IF ClassOf(value) = "str"
            THEN (IF HasNone(ValueOf(value)) THEN NoneValue ELSE value)
            ELSE IF ClassOf(value) = "list" /\ ~IsFalsy(value)
            THEN (IF IsDict(ValueOf(value)[1])
                  THEN List(SelectSeq([i \in DOMAIN ValueOf(value) |->
                                          Dict(TrimNoneStrings(ValueOf(ValueOf(value)[i])))],
                                      LAMBDA d : ~IsFalsy(d)))
                  ELSE List(SelectSeq(ValueOf(value), LAMBDA e : ~NoneIn(e))))
            ELSE value
    IN  TrimEmptyValues([k \in DOMAIN meta_dict |-> Trimmed(meta_dict[k])])

\* _trim_None_strings(d) on an element that is no dict: AttributeError
RECURSIVE TrimFails(_)
TrimFails(meta_dict) ==
    \E k \in DOMAIN meta_dict :
        LET value == meta_dict[k]
        IN  \/ IsDict(value) /\ TrimFails(ValueOf(value))
            \/ /\ ClassOf(value) = "list"
               /\ ~IsFalsy(value)
               /\ IsDict(ValueOf(value)[1])
               /\ \E i \in DOMAIN ValueOf(value) :
                      \/ ~IsDict(ValueOf(value)[i])
                      \/ TrimFails(ValueOf(ValueOf(value)[i]))

\* sanitize(meta), on a document that _git_clean accepts
Sanitize(meta) == TrimNoneStrings(CleanSource(meta))

\* the fields that lines 235-243 raise RuntimeError for
RaisingFields(res) ==
    { field \in Fields \cap DOMAIN res : ~FieldPasses(field, EmptyAsDict(res[field])) }

\* res after the loop of lines 229-243
WithEmptyAsDict(res) ==
    [k \in DOMAIN res |-> IF k \in Fields THEN EmptyAsDict(res[k]) ELSE res[k]]

CharsX == <<"x">>

GitValues == { Str(CharsX), Str(<<>>) }

SourceMappings ==
    { Dict(Section(choices)) :
        choices \in [{"git_rev", "git_tag"} -> {<<>>} \cup { <<v>> : v \in GitValues }] }

SourceValues ==
    SourceMappings
      \cup { Str(<<>>), Str(CharsX), List(<<>>), List(<<Str(CharsX)>>),
             List(<<Dict(<<>>), Str(CharsX)>>) }
      \cup { List(<<m>>) : m \in SourceMappings }

PinDependsChoices == { <<>>, <<Str(<<"r", "e", "c", "o", "r", "d">>)>>, <<Str(CharsX)>> }

NoarchValueChoices ==
    { <<>>, <<Str(<<"p", "y", "t", "h", "o", "n">>)>>, <<Str(<<"N", "o", "n", "e">>)>> }

BuildValues ==
    { Dict(Section([pin_depends |-> p, noarch |-> n])) :
        p \in PinDependsChoices, n \in NoarchValueChoices }
      \cup { Str(CharsX), List(<<Str(CharsX)>>) }

PackageValues ==
    { Str(<<>>), Dict(Section([name |-> <<Str(<<"a">>)>>])), List(<<Dict(<<>>)>>) }

\* what yamlize returns for the selected lines
ParsedDocuments ==
    { Section([source |-> sc, build |-> b, package |-> p]) :
        sc \in {<<>>} \cup { <<v>> : v \in SourceValues },
        b \in {<<>>} \cup { <<v>> : v \in BuildValues },
        p \in {<<>>} \cup { <<v>> : v \in PackageValues } }

RecipePaths == {"None", "recipe/meta.yaml"}

Raised(kind, field, class, path) ==
    [kind |-> kind, field |-> field, class |-> class, path |-> path]

InitParse ==
    /\ fn_pc = "called"
    /\ fn_args \in [res : ParsedDocuments, path : RecipePaths]
    /\ fn_result = <<>>
    /\ ResolveIdle
    /\ ToposortIdle
    /\ OutputSetIdle

\* parse, from line 227 on.  FIELDS is a dict, so that the loop meets the
\* fields in an order that the build chooses, and raises for the first
\* field it meets that fails the test.
Parse ==
    /\ fn_pc = "called"
    /\ LET res == WithEmptyAsDict(fn_args.res)
       IN  IF RaisingFields(fn_args.res) # {}
           THEN \E field \in RaisingFields(fn_args.res) :
                   /\ fn_pc' = "raised"
                   /\ fn_result' = Raised("RuntimeError", field, ClassOf(fn_args.res[field]),
                                          fn_args.path)
           ELSE IF PinDependsRaises(res)
           THEN /\ fn_pc' = "raised"
                /\ fn_result' = Raised("RuntimeError", "build/pin_depends", "", "")
           ELSE IF NoarchValueRaises(res)
           THEN /\ fn_pc' = "raised"
                /\ fn_result' = Raised("CondaBuildException", "noarch", "", "")
           ELSE IF SanitizeExits(res)
           THEN /\ fn_pc' = "exited"
                /\ fn_result' = Raised("SystemExit", "", "", "")
           ELSE IF GitCleanFails(res) \/ TrimFails(CleanSource(res))
           THEN /\ fn_pc' = "raised"
                /\ fn_result' = Raised("AttributeError", "", "", "")
           ELSE /\ fn_pc' = "returned"
                /\ fn_result' = Sanitize(res)
    /\ UNCHANGED <<fn_args, pur_vars, topo_vars, set_vars>>

NextParse == Parse

SpecParse == InitParse /\ [][NextParse]_vars

(***************************************************************************)
(* MetaData.check_fields.  self.meta maps a section to its submeta, which  *)
(* the loop over its keys reduces to the set of the keys.                  *)
(***************************************************************************)
\* FIELDS, lines 358-383
FIELDS ==
    [package |-> {"name", "version"},
     source |-> {"fn", "url", "md5", "sha1", "sha256", "path", "git_url", "git_tag",
                 "git_branch", "git_rev", "git_depth", "hg_url", "hg_tag", "svn_url",
                 "svn_rev", "svn_ignore_externals", "patches"},
     build |-> {"number", "string", "entry_points", "osx_is_app", "features",
                "track_features", "preserve_egg_dir", "no_link", "binary_relocation",
                "script", "noarch", "noarch_python", "has_prefix_files",
                "binary_has_prefix_files", "ignore_prefix_files",
                "detect_binary_files_with_prefix", "skip_compile_pyc", "rpaths",
                "script_env", "always_include_files", "skip", "msvc_compiler",
                "pin_depends", "include_recipe", "preferred_env",
                "preferred_env_executable_paths", "run_exports"},
     requirements |-> {"build", "host", "run", "conflicts", "run_constrained"},
     app |-> {"entry", "icon", "summary", "type", "cli_opts", "own_environment"},
     test |-> {"requires", "commands", "files", "imports", "source_files"},
     about |-> {"home", "dev_url", "doc_url", "license_url", "license", "summary",
                "description", "license_family", "license_file", "readme"}]

\* the section makes check_fields raise ValueError
SectionRaises(section, submeta) ==
    /\ section # "extra"
    /\ \/ section \notin DOMAIN FIELDS
       \/ \E key \in submeta : key \notin FIELDS[section]

\* check_fields returns True unless a section raises
CheckFields(meta) == \A section \in DOMAIN meta : ~SectionRaises(section, meta[section])

CheckedKeys == {"name", "number", "zzz"}

KeySetChoices == {<<>>} \cup { <<keys>> : keys \in SUBSET CheckedKeys }

CheckedDocuments ==
    { Section([package |-> p, build |-> b, extra |-> e, outputs |-> o, bogus |-> g]) :
        p \in KeySetChoices, b \in KeySetChoices, e \in {<<>>, <<{}>>, <<{"zzz"}>>},
        o \in {<<>>, <<{}>>}, g \in {<<>>, <<{}>>} }

InitCheckFields ==
    /\ fn_pc = "called"
    /\ fn_args \in [meta : CheckedDocuments]
    /\ fn_result = <<>>
    /\ ResolveIdle
    /\ ToposortIdle
    /\ OutputSetIdle

CallCheckFields ==
    /\ fn_pc = "called"
    /\ IF CheckFields(fn_args.meta)
       THEN fn_pc' = "returned" /\ fn_result' = TRUE
       ELSE fn_pc' = "raised" /\ fn_result' = "ValueError"
    /\ UNCHANGED <<fn_args, pur_vars, topo_vars, set_vars>>

NextCheckFields == CallCheckFields

SpecCheckFields == InitCheckFields /\ [][NextCheckFields]_vars

(***************************************************************************)
(* sanitize(meta), called on a document and then on the document that the  *)
(* first call returned.                                                    *)
(***************************************************************************)
CharsNone == <<"N", "o", "n", "e">>

RevValues == { Str(CharsX), Str(CharsNone), Str(<<>>) }

GitMappings ==
    { Dict(Section(choices)) :
        choices \in [{"git_rev", "git_tag", "git_branch"} ->
                        {<<>>} \cup { <<v>> : v \in RevValues }] }

CommandLists ==
    { List(<<>>), List(<<Str(CharsX)>>), List(<<Str(CharsNone), Str(CharsX)>>),
      List(<<Str(CharsNone)>>),
      List(<<Dict(Section([k |-> <<Str(CharsNone)>>]))>>),
      List(<<Dict(Section([k |-> <<Str(CharsX)>>])), Dict(Section([k |-> <<Str(CharsNone)>>]))>>),
      List(<<Str(CharsNone), Dict(Section([k |-> <<Str(CharsNone)>>]))>>),
      List(<<Dict(Section([k |-> <<Str(CharsX)>>])), Str(CharsX)>>) }

SanitizedDocuments ==
    { Section([source |-> sc, test |-> t, package |-> p]) :
        sc \in {<<>>} \cup { <<m>> : m \in GitMappings },
        t \in {<<>>} \cup { <<Dict(Section([commands |-> <<c>>]))>> : c \in CommandLists },
        p \in {<<>>} \cup { <<Dict(Section([name |-> <<v>>]))>> : v \in RevValues } }
      \cup { Section([source |-> <<List(<<m>>)>>]) : m \in GitMappings }

\* the way sanitize(meta) ends
SanitizeOutcome(meta) ==
    IF SanitizeExits(meta) THEN "exited"
    ELSE IF GitCleanFails(meta) \/ TrimFails(CleanSource(meta)) THEN "raised"
    ELSE "returned"

InitSanitize ==
    /\ fn_pc = "called"
    /\ fn_args \in [meta : SanitizedDocuments]
    /\ fn_result = <<>>
    /\ ResolveIdle
    /\ ToposortIdle
    /\ OutputSetIdle

\* what sanitize(meta) leaves: the document, or the keys that the message
\* of the exit names, or nothing
SanitizeResult(meta) ==
    IF SanitizeOutcome(meta) = "returned" THEN <<Sanitize(meta)>>
    ELSE IF SanitizeOutcome(meta) = "exited"
    THEN LET i == CHOOSE i \in DOMAIN SourceMetas(meta) :
                      /\ GitCleanExits(ValueOf(SourceMetas(meta)[i]))
                      /\ \A j \in 1..(i - 1) : ~GitCleanExits(ValueOf(SourceMetas(meta)[j]))
         IN  GitCleanMessage(ValueOf(SourceMetas(meta)[i]))
    ELSE <<>>

\* sanitize(meta)
CallSanitize ==
    /\ fn_pc = "called"
    /\ fn_pc' = SanitizeOutcome(fn_args.meta)
    /\ fn_result' = SanitizeResult(fn_args.meta)
    /\ UNCHANGED <<fn_args, pur_vars, topo_vars, set_vars>>

\* sanitize(sanitize(meta))
CallSanitizeAgain ==
    /\ fn_pc = "returned"
    /\ fn_pc' = IF SanitizeOutcome(fn_result[1]) = "returned" THEN "returned_again"
                ELSE "failed_again"
    /\ fn_result' = IF fn_pc' = "returned_again"
                    THEN Append(fn_result, Sanitize(fn_result[1])) ELSE fn_result
    /\ UNCHANGED <<fn_args, pur_vars, topo_vars, set_vars>>

NextSanitize == CallSanitize \/ CallSanitizeAgain

SpecSanitize == InitSanitize /\ [][NextSanitize]_vars

(***************************************************************************)
(* MetaData.version.  The MetaData has the values of extra/final and of    *)
(* package/version, each absent (<<>>) or present (<<value>>).             *)
(***************************************************************************)
Bool(b) == [bool |-> b]

Trues == { <<"y">>, <<"o", "n">>, <<"t", "r", "u", "e">>, <<"y", "e", "s">> }

Falses == { <<"n">>, <<"n", "o">>, <<"f", "a", "l", "s", "e">>, <<"o", "f", "f">> }

\* lines 820-826 of get_value: the yaml 1.1 booleans
YamlBool(value) ==
    IF ClassOf(value) # "str" THEN value
    ELSE IF ValueOf(value) \in Trues THEN Bool(TRUE)
    ELSE IF ValueOf(value) \in Falses THEN Bool(FALSE)
    ELSE value

\* the truth of self.final, which is get_value('extra/final')
FinalFlag(m) ==
    /\ m.final # <<>>
    /\ LET value == YamlBool(m.final[1])
       IN  IF ClassOf(value) = "bool" THEN ValueOf(value) ELSE ValueOf(value) # <<>>

\* str(self.get_value('package/version')): an absent version is text_type()
VersionString(m) ==
    IF m.version = <<>> THEN <<>>
    ELSE LET value == YamlBool(Str(m.version[1]))
         IN  IF ClassOf(value) = "bool"
             THEN (IF ValueOf(value) THEN <<"T", "r", "u", "e">>
                   ELSE <<"F", "a", "l", "s", "e">>)
             ELSE ValueOf(value)

\* check_bad_chrs(res, 'package/version') exits
VersionHasBadChrs(res) == \E i \in DOMAIN res : res[i] \in BadChrs \ {"!"}

\* line 858
VersionRaisesMut(m) == VersionString(m) # <<>> /\ VersionString(m)[1] = "."
VersionRaises(m) == FinalFlag(m) /\ VersionString(m) # <<>> /\ VersionString(m)[1] = "."

MaxVersionLen == 3

VersionChars == {".", "1", "-", "y"}

Versions == UNION { [1..n -> VersionChars] : n \in 0..MaxVersionLen }

FinalChoices ==
    { <<>>, <<Bool(TRUE)>>, <<Bool(FALSE)>>, <<Str(<<"t", "r", "u", "e">>)>>,
      <<Str(<<"n", "o">>)>>, <<Str(CharsX)>> }

InitVersion ==
    /\ fn_pc = "called"
    /\ fn_args \in [final : FinalChoices, version : {<<>>} \cup { <<v>> : v \in Versions }]
    /\ fn_result = <<>>
    /\ ResolveIdle
    /\ ToposortIdle
    /\ OutputSetIdle

\* MetaData.version
CallVersion ==
    /\ fn_pc = "called"
    /\ IF VersionHasBadChrs(VersionString(fn_args))
       THEN fn_pc' = "exited" /\ UNCHANGED fn_result
       ELSE IF VersionRaises(fn_args)
       THEN fn_pc' = "raised" /\ UNCHANGED fn_result
       ELSE fn_pc' = "returned" /\ fn_result' = VersionString(fn_args)
    /\ UNCHANGED <<fn_args, pur_vars, topo_vars, set_vars>>

NextVersion == CallVersion

SpecVersion == InitVersion /\ [][NextVersion]_vars

(***************************************************************************)
(* ns_cfg(config): the names that come from the variant's python.          *)
(***************************************************************************)
\* int("".join(py.split('.')[:2]))
PyNumber(python) == IntOf(Concat(Take(Split(python, "."), 2)))

\* lines 69-79
NsCfg(python) ==
    LET py == PyNumber(python)
    IN  [py |-> py, py3k |-> 30 <= py /\ py < 40, py2k |-> 20 <= py /\ py < 30,
         py26 |-> py = 26, py27 |-> py = 27, py33 |-> py = 33, py34 |-> py = 34,
         py35 |-> py = 35, py36 |-> py = 36]

MaxMinor == 12

PythonMajors == {2, 3, 4}

\* major.minor and major.minor.patch
PythonVersions ==
    { NatStr(major) \o <<".">> \o NatStr(minor) \o patch :
        major \in PythonMajors, minor \in 0..MaxMinor, patch \in {<<>>, <<".", "1">>} }

InitNsCfg ==
    /\ fn_pc = "called"
    /\ fn_args \in [python : PythonVersions]
    /\ fn_result = <<>>
    /\ ResolveIdle
    /\ ToposortIdle
    /\ OutputSetIdle

CallNsCfg ==
    /\ fn_pc = "called"
    /\ fn_pc' = "returned"
    /\ fn_result' = NsCfg(fn_args.python)
    /\ UNCHANGED <<fn_args, pur_vars, topo_vars, set_vars>>

NextNsCfg == CallNsCfg

SpecNsCfg == InitNsCfg /\ [][NextNsCfg]_vars

(***************************************************************************)
(* What get_output_metadata(output) does to the MetaData it is called on.  *)
(* When the output bears the object's own name, output_metadata is the     *)
(* object itself and the assignments to output_metadata.meta are made to   *)
(* it; otherwise they are made to a copy.  get_output_metadata_set calls   *)
(* it on one object for each output of the recipe in turn.                 *)
(***************************************************************************)
\* self.name() == output.get('name')
BearsOwnName(self_m, output) == self_m.name = [base |-> output.name, suffix |-> ""]

\* the name and the requirements of self when the call returns
SelfAfter(self_m, output) ==
    IF BearsOwnName(self_m, output)
    THEN [name |-> PackageName(output),
          requirements |-> GetOutputMetadata(output, "v1", -1).requirements]
    ELSE self_m

\* the MetaData objects the calls are made on: a top-level name and the
\* recipe's requirements
ParentMetadata ==
    [name : { [base |-> n, suffix |-> ""] : n \in OutputNames },
     requirements : [build : RequirementLists, run : {<<>>}]]

OutputDescriptors == [name : OutputNames, type : Types, requirements : RequirementLists]

\* the outputs of a recipe, at most two
OutputLists ==
    { <<o>> : o \in OutputDescriptors }
        \cup { <<o1, o2>> : o1 \in OutputDescriptors, o2 \in OutputDescriptors }

InitOutputMetadata ==
    /\ fn_pc = "called"
    /\ fn_args \in [self : ParentMetadata, outputs : OutputLists]
    /\ fn_result = [self |-> fn_args.self, derived |-> <<>>]
    /\ ResolveIdle
    /\ ToposortIdle
    /\ OutputSetIdle

\* one turn of "for out in outputs: ... om.get_output_metadata(out)"
CallGetOutputMetadata ==
    /\ fn_pc = "called"
    /\ LET out == fn_args.outputs[Len(fn_result.derived) + 1]
           derived == Append(fn_result.derived, GetOutputMetadata(out, "v1", -1))
       IN /\ fn_result' = [self |-> SelfAfter(fn_result.self, out), derived |-> derived]
          /\ fn_pc' = IF Len(derived) = Len(fn_args.outputs) THEN "returned" ELSE "called"
    /\ UNCHANGED <<fn_args, pur_vars, topo_vars, set_vars>>

NextOutputMetadata == CallGetOutputMetadata

SpecOutputMetadata == InitOutputMetadata /\ [][NextOutputMetadata]_vars

(***************************************************************************)
(* get_output_dicts_from_metadata called again and again on one MetaData.  *)
(* get_section('outputs') is the list held in self.meta, and the function  *)
(* appends to it and assigns to its elements in place: when the section is *)
(* not empty, the list the call returns is the section the next call       *)
(* reads.  An empty section is left alone (the result is a new list).      *)
(***************************************************************************)
\* number of calls made on one MetaData
MaxCalls == 3

\* metadata.meta when the call has returned
MetaAfterOutputDicts(meta) ==
    IF meta.outputs = <<>> THEN meta
    ELSE [meta EXCEPT !.outputs = GetOutputDictsFromMetadata(meta)]

InitRepeatOutputDicts ==
    /\ fn_pc = "called"
    /\ fn_args \in MetaDocuments
    /\ fn_result = [meta |-> fn_args, returned |-> <<>>]
    /\ ResolveIdle
    /\ ToposortIdle
    /\ OutputSetIdle

CallGetOutputDictsAgain ==
    /\ fn_pc = "called"
    /\ LET results == Append(fn_result.returned, GetOutputDictsFromMetadata(fn_result.meta))
       IN /\ fn_result' = [meta |-> MetaAfterOutputDicts(fn_result.meta),
                           returned |-> results]
          /\ fn_pc' = IF Len(results) = MaxCalls THEN "returned" ELSE "called"
    /\ UNCHANGED <<fn_args, pur_vars, topo_vars, set_vars>>

NextRepeatOutputDicts == CallGetOutputDictsAgain

SpecRepeatOutputDicts == InitRepeatOutputDicts /\ [][NextRepeatOutputDicts]_vars

(***************************************************************************)
(* Properties of the re-parse loop.                                        *)
(***************************************************************************)
Ended == pc \in {"done", "sys_exit", "raised", "returned", "skipped"}

InParseUntilResolved == caller \in {"parse_until_resolved", "finalize_outputs_pass"}

\* the last two permissive parses of the call recorded the same set
Stabilised == Len(recorded) = 2 /\ recorded[1] = recorded[2]

\* C1: every call of parse_until_resolved ends: it reaches the strict pass
\* (and returns or raises there), exits with the unresolved names, or raises;
\* it never goes round the permissive loop forever.
C1_Terminates == <>Ended

\* C2, as stated: once two consecutive permissive parses recorded the same
\* set, a non-empty set makes the call exit with no strict parse, an empty one
\* is followed by exactly one strict parse, the last parse of the call; and no
\* strict parse is made before two consecutive permissive parses agreed.
C2_StableNonEmptyFails ==
    (InParseUntilResolved /\ Stabilised /\ recorded[2] # {})
        => (n_strict = 0 /\ pc \in {"while", "check", "sys_exit"})

C2_StableEmptyStrictLast ==
    /\ (InParseUntilResolved /\ Stabilised /\ recorded[2] = {})
          => \/ pc \in {"while", "check", "strict"} /\ n_strict = 0
             \/ pc \in {"done", "raised"} /\ n_strict = 1 /\ ~call.permit
    /\ (InParseUntilResolved /\ n_strict > 0)
          => (n_strict = 1 /\ pc \in {"done", "raised"} /\ ~call.permit)

C2_AsStated ==
    /\ C2_StableNonEmptyFails
    /\ C2_StableEmptyStrictLast
    /\ (InParseUntilResolved /\ n_strict > 0) => Stabilised

\* C2, amended: as above, but the strict parse also follows directly a first
\* permissive parse that recorded no unresolved name (the loop compares the
\* first recorded set with the empty tuple the local starts as).
C2_StrictOnlyOnceStable ==
    /\ C2_StableNonEmptyFails
    /\ C2_StableEmptyStrictLast
    /\ (InParseUntilResolved /\ n_strict > 0)
          => /\ Len(recorded) > 0
             /\ recorded[Len(recorded)] = {}
             /\ (Stabilised \/ n_permissive = 1)

C2_Witness ==
    /\ caller = "parse_until_resolved"
    /\ pc = "done"
    /\ n_strict = 1
    /\ n_permissive = 3
    /\ recorded = <<{}, {}>>

\* C3: parse_again on a final MetaData raises before it changes anything:
\* meta, undefined_jinja_vars and the environment are as before the call, and
\* no call gets past the assertion on a final MetaData; the finalization pass
\* never makes such a call (it re-parses only a copy that is not final).
C3_FinalNeverReparsed ==
    /\ call.on_final => /\ ~call.entered
                        /\ call.raised = "AssertionError"
                        /\ pc = "raised"
                        /\ md = call.pre
                        /\ environ = call.env_pre
    /\ call.entered => ~call.on_final
    /\ caller = "finalize_outputs_pass" => ~call.on_final

C3_Witness ==
    /\ caller = "parse_until_resolved"
    /\ pc = "raised"
    /\ call.on_final
    /\ call.raised = "AssertionError"
    /\ environ = "RENDER"
    /\ md.undefined # {}

(***************************************************************************)
(* Properties of toposort.                                                 *)
(***************************************************************************)
\* C9: in the map toposort returns, whenever the first token of a requirement
\* of conda output a (for the chosen phase) is the name of conda output b,
\* every entry named b comes strictly before every entry named a.
C9_DependenciesFirst ==
    topo_pc = "sorted" =>
        \A i, j \in DOMAIN output_metadata_map :
            LET a == output_metadata_map[i]
                b == output_metadata_map[j]
            IN  ( /\ IsConda(a.d) /\ IsConda(b.d)
                  /\ \E req \in Range(GetRequirements(a.m, phase)) :
                        FirstToken(req) = b.d.name )
                => \A p, q \in DOMAIN topo_result :
                      ( /\ topo_result[p].d.name = b.d.name
                        /\ topo_result[q].d.name = a.d.name ) => p < q

\* C10: toposort returns every entry of its argument exactly once, the
\* non-conda entries after all the conda entries and in the order they had in
\* the argument.
C10_NothingLost ==
    topo_pc = "sorted" =>
        /\ Len(topo_result) = Len(output_metadata_map)
        /\ Range(topo_result) = Range(output_metadata_map)
        /\ \A p, q \in DOMAIN topo_result :
              (~IsConda(topo_result[p].d) /\ IsConda(topo_result[q].d)) => q < p
        /\ SelectSeq(topo_result, LAMBDA e : ~IsConda(e.d))
              = SelectSeq(output_metadata_map, LAMBDA e : ~IsConda(e.d))

\* conda entry named n1 of the map lists n2, the name of another conda entry,
\* among its requirements for the phase
Requires(map, ph, n1, n2) ==
    \E i, j \in DOMAIN map :
        /\ IsConda(map[i].d) /\ map[i].d.name = n1
        /\ IsConda(map[j].d) /\ map[j].d.name = n2
        /\ \E req \in Range(GetRequirements(map[i].m, ph)) : FirstToken(req) = n2

\* the names reachable from the names of `from` along at most n requirements
RECURSIVE ReachableIn(_, _, _, _)
ReachableIn(map, ph, from, n) ==
    IF n = 0 THEN from
    ELSE LET near == ReachableIn(map, ph, from, n - 1)
         IN  near \cup { n2 \in OutputNames : \E n1 \in near : Requires(map, ph, n1, n2) }

\* a dependency cycle through two or more conda outputs
HasCycle(map, ph) ==
    \E n1, n2 \in OutputNames :
        /\ n1 # n2
        /\ Requires(map, ph, n1, n2)
        /\ n1 \in ReachableIn(map, ph, {n2}, Cardinality(OutputNames))

\* C11: when the conda outputs given to toposort have a dependency cycle
\* through two or more of them in the phase, toposort raises and returns no
\* ordering.
C11_CycleIsAnError ==
    (topo_pc # "input" /\ HasCycle(output_metadata_map, phase)) =>
        topo_pc = "raised" /\ topo_result = <<>>


(***************************************************************************)
(* Properties of get_output_metadata_set and finalize_outputs_pass.        *)
(***************************************************************************)
\* the output dicts extracted under a variant
Extracted(variant) == GetOutputDictsFromMetadata(Render(recipe, variant))

\* the name get_output_metadata gives the metadata of an output dict
NameOf(output_d) == GetOutputMetadata(output_d, "v1", -1).name

\* the (name, variant) keys in the order of the build-phase toposort
ToposortedKeys == Keys(CondaPackages(Toposort(out_metadata_map, "build").result))

\* C4: when get_output_metadata_set returns, then for every configured
\* variant (whose own extraction did not end in a tolerated SystemExit) and
\* every output dict extracted under it, the returned sequence holds that
\* output's metadata bound to that variant.
C4_EntryPerOutputAndVariant ==
    set_pc = "done" =>
        \A v \in Range(variants) \ exited :
            \A out \in Range(Extracted(v)) :
                \E e \in Range(returned) :
                    e.m.name = NameOf(out) /\ e.m.variant = v

\* C5: without permit_undefined_jinja the call returns after exactly three
\* passes; during and after every pass the conda outputs are in the order of
\* the build-phase toposort and have been visited in that order.  With
\* permit_undefined_jinja no pass runs, and the toposorted, unfinalized
\* metadata is returned.
C5_ThreePassesInToposortOrder ==
    /\ set_pc \in {"finalize", "pass_end"} =>
          /\ ~permit_undefined_jinja
          /\ iteration < 3
          /\ Keys(conda_packages) = ToposortedKeys
          /\ Keys(outputs) = SubSeq(ToposortedKeys, 1, position)
    /\ set_pc = "done" /\ ~permit_undefined_jinja =>
          /\ iteration = 3
          /\ Keys(conda_packages) = ToposortedKeys
          /\ returned = Values(conda_packages) \o non_conda_packages
    /\ set_pc = "done" /\ permit_undefined_jinja =>
          /\ iteration = 0
          /\ at_rerender = <<>>
          /\ returned = Values(CondaPackages(Toposort(out_metadata_map, "build").result))
                        \o non_conda_packages
          /\ \A e \in Range(returned) : ~e.m.final

C5_Witness ==
    /\ set_pc = "done"
    /\ ~permit_undefined_jinja
    /\ iteration = 3
    /\ Len(returned) >= 2
    /\ \E i \in DOMAIN returned : \E req \in Range(returned[i].m.requirements.build) :
          \E j \in 1..(i - 1) : returned[j].m.name.base = FirstToken(req)

\* C6: at the moment an output is re-rendered in a pass, other_outputs holds
\* the result this pass produced for each output before it in the toposorted
\* order, and for the outputs from it onwards the result of the previous
\* pass, if there was one.
C6_OtherOutputsHoldPrecedingResults ==
    at_rerender # <<>> =>
        LET r == at_rerender[1]
        IN  /\ Keys(r.produced) = SubSeq(ToposortedKeys, 1, r.position)
            /\ \A p \in Range(r.produced) :
                  /\ p \in Range(r.other)
                  /\ p.val.m.rendered_in = r.iteration
            /\ r.iteration > 0 =>
                  \A j \in (r.position + 1)..Len(ToposortedKeys) :
                      \E e \in Range(r.other) :
                          /\ e.key = ToposortedKeys[j]
                          /\ e.val.m.rendered_in = r.iteration - 1

C6_Witness ==
    /\ at_rerender # <<>>
    /\ at_rerender[1].iteration >= 1
    /\ at_rerender[1].position >= 1
    /\ Len(at_rerender[1].other) > at_rerender[1].position

\* the output being finalized needs a dependency built, and the step did not
\* fail before finalize_metadata was reached
RaisesNeedsBuilding ==
    /\ set_pc = "finalize"
    /\ conda_packages[position + 1].key[1].base \in needs_building
    /\ raised_by' \notin {"SystemExit", "AssertionError", "RuntimeError"}

\* C7: when finalizing an output raises DependencyNeedsBuildingError and
\* permit_unsatisfiable_variants is set, the output's unfinalized metadata is
\* stored under its (name, variant) and the pass goes on, so a completed
\* pass has an entry for every output; when it is not set the error
\* propagates and nothing is returned.
C7_NeedsBuildingKeptOrFatal ==
    /\ [](set_pc = "pass_end" => Keys(outputs) = Keys(conda_packages))
    /\ [](raised_by = "DependencyNeedsBuildingError" =>
              ~permit_unsatisfiable_variants /\ set_pc = "raised" /\ returned = <<>>)
    /\ [][RaisesNeedsBuilding =>
             IF permit_unsatisfiable_variants
             THEN /\ set_pc' \in {"finalize", "pass_end"}
                  /\ position' = position + 1
                  /\ Len(outputs') = position + 1
                  /\ outputs'[position + 1].key = conda_packages[position + 1].key
                  /\ ~outputs'[position + 1].val.m.final
             ELSE /\ set_pc' = "raised"
                  /\ raised_by' = "DependencyNeedsBuildingError"
                  /\ returned' = <<>>]_vars

C7_Witness ==
    /\ set_pc = "done"
    /\ permit_unsatisfiable_variants
    /\ iteration = 3
    /\ \E e \in Range(returned) : ~e.m.final /\ e.m.name.base \in needs_building
    /\ \E e \in Range(returned) : e.m.final

\* C8: the entries accumulated for a variant are those the variant would
\* accumulate alone, whichever other variants are configured and whatever
\* their order: after each iteration of the loop over the variants, the map
\* holds for every variant processed so far (whose own extraction did not
\* end in a tolerated SystemExit) exactly the entries of that variant alone.
C8_VariantsIndependent ==
    set_pc \in {"expand", "toposort"} =>
        \A i \in 1..variant_index :
            LET v == variants[i]
            IN  v \notin exited =>
                    { e \in Range(out_metadata_map) : e.m.variant = v }
                        = Range(StoreOutputs(<<>>, Extracted(v), v))

(***************************************************************************)
(* Properties of get_output_dicts_from_metadata.                           *)
(***************************************************************************)
\* a top-level run requirement names one of the declared outputs
ReferencesSubpackage(meta) ==
    \E out \in Range(meta.outputs) : \E req \in Range(meta.requirements.run) :
        FirstToken(req) = out.name

\* C12: when the document declares outputs, none of them bears the top-level
\* name and a top-level run requirement names any one of them, the returned
\* list is the declared outputs followed by the top-level descriptor.
C12_TopLevelAppended ==
    ( /\ fn_pc = "returned"
      /\ fn_args.outputs # <<>>
      /\ \A out \in Range(fn_args.outputs) : out.name # fn_args.name
      /\ ReferencesSubpackage(fn_args) )
    => /\ Len(fn_result) = Len(fn_args.outputs) + 1
       /\ fn_result[Len(fn_result)] = OutputDictFromTopLevelMeta(fn_args)

(***************************************************************************)
(* Properties of the content hash.                                         *)
(***************************************************************************)
\* C13: two MetaData that differ only in build/number, build/string,
\* build/noarch and build/noarch_python (each set, changed or absent) have
\* the same hash contents, composite and file list, and the same hash.
C13_HashIgnoresMutableBuildFields ==
    fn_pc = "returned" =>
        /\ fn_result[1].contents = fn_result[2].contents
        /\ fn_result[1].hash = fn_result[2].hash

C13_Witness ==
    /\ fn_pc = "returned"
    /\ DOMAIN fn_args[1].meta.build = {"number", "string", "noarch", "noarch_python", "features"}
    /\ DOMAIN fn_args[2].meta.build = {"number", "features"}
    /\ fn_args[1].meta.build.number # fn_args[2].meta.build.number
    /\ "build" \in DOMAIN fn_result[1].contents.composite
    /\ fn_result[1].contents.file_paths # <<>>
    /\ Len(fn_result[1].hash) = 3

(***************************************************************************)
(* Properties of build_id.                                                 *)
(***************************************************************************)
\* the two MetaData of the call differ in build/number
NumbersDiffer ==
    Get(fn_args[1].meta.build, "number", <<>>) # Get(fn_args[2].meta.build, "number", <<>>)

EffectiveNumber(m) ==
    LET number == Get(m.meta.build, "number", <<>>)
    IN  IF IsInt(number) THEN IntOf(number) ELSE 0

Contains(str, part) ==
    \E i \in 0..(Len(str) - Len(part)) : SubSeq(str, i + 1, i + Len(part)) = part

\* position i of the string lies in a segment 'h' + n hexadecimal digits
InSegment(str, i, n) == \E j \in DOMAIN str : SegmentAt(str, j, n) /\ j <= i /\ i <= j + n

\* C15: with filename hashing, build_id() contains the current hash.  When
\* the build string has a segment 'h' + hash_length hexadecimal digits, the
\* id is the build string with nothing but such segments changed.  When it
\* has none, the id is the build string with the hash put next to its last
\* underscore-separated token, the build number: what precedes that token
\* and the token itself are kept; a build string of one token gets the hash
\* before or after it.
C15_HashStamped ==
    (fn_pc = "returned" /\ fn_args[1].filename_hashing) =>
        LET out == BuildStringFromMetadata(fn_args[1])
            n == fn_args[1].hash_length
            hash == fn_result[1].hash
            id == fn_result[1].build_id
            ret == RSplitOnce(out, "_")
        IN  /\ Contains(id, hash)
            /\ HasSegment(out, n) =>
                  /\ Len(id) = Len(out)
                  /\ \A i \in DOMAIN out : id[i] # out[i] => InSegment(out, i, n)
            /\ (~HasSegment(out, n) /\ Len(ret) = 1) =>
                  id \in { hash \o <<"_">> \o out, out \o <<"_">> \o hash, out \o hash }
            /\ (~HasSegment(out, n) /\ Len(ret) = 2) =>
                  id \in { ret[1] \o hash \o <<"_">> \o ret[2],
                           ret[1] \o <<"_">> \o hash \o <<"_">> \o ret[2],
                           ret[1] \o <<"_">> \o ret[2] \o hash,
                           ret[1] \o <<"_">> \o ret[2] \o <<"_">> \o hash }

(***************************************************************************)
(* Properties of build_string_from_metadata.                               *)
(***************************************************************************)
\* the run requirements list a name of the tag
InRun(m, tag) ==
    \E ms \in Range(MsDepends(m, "run")) : ms.name \in Range(tag.names)

\* the package is noarch for python
NoarchFor(m, tag) ==
    /\ "python" \in Range(tag.names)
    /\ {"noarch", "noarch_python"} \cap DOMAIN m.meta.build # {}

\* the tag with the first `places` components of the version
TagWithVersion(tag, version, places) == tag.s \o Concat(Take(Split(version, "."), places))

\* C16 as stated: when the run requirements list a tracked package, the
\* variant has a version for it and the package is not noarch, the build
\* string contains the short tag followed by the major and minor digits of
\* the version.
C16_AsStated ==
    fn_pc = "returned" =>
        \A i \in DOMAIN VersionTags :
            LET tag == VersionTags[i]
            IN  ( /\ InRun(fn_args, tag)
                  /\ VariantVersion(fn_args, tag) # <<>>
                  /\ DOMAIN fn_args.meta.build \cap {"noarch", "noarch_python"} = {} )
                => Contains(fn_result, TagWithVersion(tag, VariantVersion(fn_args, tag), 2))

\* a run requirement makes the tag appear: its name is a name of the tag and
\* is among the build requirements too, and a numpy requirement has a version
Tagged(m, tag) ==
    \E ms \in Range(MsDepends(m, "run")) :
        /\ ms.name \in Range(tag.names)
        /\ \E bs \in Range(MsDepends(m, "build")) : bs.name = ms.name
        /\ ms.name = "numpy" => ms.version # ""

\* C16: the build string contains the short tag of a tracked package exactly
\* when a run requirement names the package, the build requirements name it
\* too and, for numpy, the run requirement has a version; the tag is then
\* followed by the first two (for r: three) components of the variant's
\* version, or by nothing when the package is noarch for python.
C16_TagWhenInBuildAndRun ==
    fn_pc = "returned" =>
        \A i \in DOMAIN VersionTags :
            LET tag == VersionTags[i]
                version == VariantVersion(fn_args, tag)
            IN  /\ Tagged(fn_args, tag) <=> Contains(fn_result, tag.s)
                /\ (Tagged(fn_args, tag) /\ ~NoarchFor(fn_args, tag)) =>
                      Contains(fn_result, TagWithVersion(tag, version, tag.places))
                /\ (Tagged(fn_args, tag) /\ NoarchFor(fn_args, tag) /\ version # <<>>) =>
                      ~Contains(fn_result, TagWithVersion(tag, version, 1))

C16_Witness ==
    /\ fn_pc = "returned"
    /\ fn_args.name = "pkg"
    /\ Get(fn_args.meta.requirements, "run", <<>>) = << <<"python">>, <<"numpy", "1.15">> >>
    /\ Get(fn_args.meta.requirements, "build", <<>>) = << <<"numpy">>, <<"python">> >>
    /\ DOMAIN fn_args.meta.build = {}
    /\ "python" \in DOMAIN fn_args.variant
    /\ fn_result = <<"n", "p", "1", "1", "5", "p", "y", "2", "7", "_", "0">>

\* what a tag contributes when it is there
TagPiece(m, tag) ==
    IF NoarchFor(m, tag) THEN tag.s
    ELSE TagWithVersion(tag, VariantVersion(m, tag), tag.places)

\* the layout with the tags of `present`, each once, in the fixed order
Layout(m, present) ==
    LET tags == Concat([i \in DOMAIN VersionTags |->
                           IF i \in present THEN TagPiece(m, VersionTags[i]) ELSE <<>>])
        features == Get(m.meta.build, "features", <<>>)
    IN  tags \o (IF tags # <<>> THEN <<"_">> ELSE <<>>)
             \o (IF features # <<>> THEN Join(<<"_">>, features) \o <<"_">> ELSE <<>>)
             \o IntStr(EffectiveNumber(m))

\* C17: a synthesised build string is made of version tags in the order np,
\* py, pl, lua, r, each at most once, then the build features joined by '_',
\* then the build number (0 when build/number is absent or not an integer),
\* with one '_' after each group that is not empty.
C17_ExactLayout ==
    fn_pc = "returned" =>
        \E present \in SUBSET DOMAIN VersionTags : fn_result = Layout(fn_args, present)

(***************************************************************************)
(* Properties of eval_selector.                                            *)
(***************************************************************************)
\* the selector with every name the namespace lacks, as a whole word,
\* replaced by False
AbsentAsFalse(words, namespace) ==
    [i \in DOMAIN words |->
        IF words[i] \in SelectorNames \ DOMAIN namespace THEN LitFalse ELSE words[i]]

\* C18: eval_selector never fails on a selector that refers to names the
\* namespace lacks, and the value it returns is the value of the selector
\* with each such name, as a whole identifier, replaced by False.
C18_AbsentNamesAreFalse ==
    /\ fn_pc # "raised"
    /\ fn_pc = "returned" =>
          fn_result.value =
              Eval(AbsentAsFalse(fn_args.selector_string, fn_args.namespace),
                   fn_args.namespace).value

(***************************************************************************)
(* Properties of select_lines.                                             *)
(***************************************************************************)
\* the line ends with a bracketed selector and is not a comment
CarriesTrailingSelector(raw) ==
    LET line == RStrip(raw)
    IN  /\ LStrip(line) # <<>>
        /\ LStrip(line)[1] # "#"
        /\ \E p \in 2..Len(line) : BracketsAt(line, p, Len(line))

TrailingSelector(raw) ==
    LET line == RStrip(raw)
        p == CHOOSE p \in 2..Len(line) : BracketsAt(line, p, Len(line))
    IN  SubSeq(line, p + 1, Len(line) - 1)

\* a comment marker is a # at the start or after white space
IsMarker(str, k) == str[k] = "#" /\ (k = 1 \/ str[k - 1] = " ")

\* the line without its selector, without the comment that holds the
\* selector, and without the white space before them
ContentOf(raw) ==
    LET line == RStrip(raw)
        p == CHOOSE p \in 2..Len(line) : BracketsAt(line, p, Len(line))
        before == RStrip(SubSeq(line, 1, p - 1))
        markers == { k \in DOMAIN before : IsMarker(before, k) }
    IN  IF markers = {} THEN before
        ELSE RStrip(SubSeq(before, 1, (CHOOSE k \in markers : \A l \in markers : k >= l) - 1))

LastLine(data) == data[Len(data)]

\* C19: a line that carries a trailing selector is kept if and only if the
\* selector evaluates true in the namespace, and what is kept of it is its
\* content, without the selector and its comment marker; the lines before it
\* that have no selector are kept as they are.
C19_KeptIffSelectorTrue ==
    (fn_pc = "returned" /\ CarriesTrailingSelector(LastLine(fn_args.data))) =>
        LET line == LastLine(fn_args.data)
            value == EvalSelectorValue(Words(TrailingSelector(line)), fn_args.namespace)
        IN  fn_result =
                JoinLines(SubSeq(fn_args.data, 1, Len(fn_args.data) - 1)
                          \o (IF value.value THEN <<ContentOf(line)>> ELSE <<>>))

(***************************************************************************)
(* Properties of parse.                                                    *)
(***************************************************************************)
\* the section is what the document may hold for the field: nothing, a
\* mapping or, for source, a sequence of mappings
IsWellTyped(field, value) ==
    \/ IsFalsy(value)
    \/ IsDict(value)
    \/ /\ field = "source"
       /\ ClassOf(value) = "list"
       /\ \A i \in DOMAIN ValueOf(value) : IsDict(ValueOf(value)[i])

IllTypedFields(res) == { field \in Fields \cap DOMAIN res : ~IsWellTyped(field, res[field]) }

\* C20: parse returns a document only when every recognized section of the
\* document is empty, a mapping or, for source, a sequence of mappings; a
\* section with another value makes parse fail with an error that names
\* such a field, the class of its value and the path of the recipe.
C20_SectionsAreMappings ==
    (fn_pc # "called" /\ IllTypedFields(fn_args.res) # {}) =>
        /\ fn_pc = "raised"
        /\ fn_result.kind = "RuntimeError"
        /\ fn_result.field \in IllTypedFields(fn_args.res)
        /\ fn_result.class = ClassOf(fn_args.res[fn_result.field])
        /\ fn_result.path = fn_args.path

(***************************************************************************)
(* Properties of check_fields.                                             *)
(***************************************************************************)
FixedSections ==
    {"package", "source", "build", "requirements", "app", "test", "about", "outputs", "extra"}

\* the sections whose keys are free
FreeForm == {"outputs", "extra"}

\* C21: check_fields accepts a document exactly when every section of it is
\* one of the fixed sections (outputs and extra among them) and every key of
\* a section that is not free-form is in the whitelist of the section.
C21_AcceptsExactlyTheSchema ==
    fn_pc # "called" =>
        (fn_pc = "returned" <=>
            \A section \in DOMAIN fn_args.meta :
                /\ section \in FixedSections
                /\ section \notin FreeForm => fn_args.meta[section] \subseteq FIELDS[section])

(***************************************************************************)
(* Properties of sanitize.                                                 *)
(***************************************************************************)
\* C22: sanitize accepts every document that it returned, and returns it
\* as it is: sanitize(sanitize(d)) = sanitize(d).
C22_SanitizeIdempotent ==
    /\ fn_pc # "failed_again"
    /\ fn_pc = "returned_again" => fn_result[2] = fn_result[1]

\* the tags of the source mapping that are set
SetTags(source_meta) == { tag \in Range(GitRevTags) : HasRevTag(source_meta, tag) }

\* what _git_clean made of the i-th source mapping
Cleaned(meta, i) == ValueOf(SourceMetas(CleanSource(meta))[i])

BeginsWithPeriod(m) == m.version # <<>> /\ m.version[1] # <<>> /\ m.version[1][1] = "."

\* C24 as stated: on a MetaData whose final flag is true, version() fails
\* for every version that begins with a period, and on a MetaData that is
\* not final it returns every such version.
C24_AsStated ==
    (fn_pc # "called" /\ BeginsWithPeriod(fn_args)) =>
        IF FinalFlag(fn_args) THEN fn_pc \in {"raised", "exited"}
        ELSE fn_pc = "returned" /\ fn_result = fn_args.version[1]

\* C24: on a MetaData whose final flag is true, version() fails for every
\* version that begins with a period; on a MetaData that is not final it
\* returns the same version, provided the version has none of the
\* characters that check_bad_chrs rejects in every version.
C24_PeriodFatalOnlyWhenFinal ==
    (fn_pc # "called" /\ BeginsWithPeriod(fn_args)) =>
        IF FinalFlag(fn_args) THEN fn_pc \in {"raised", "exited"}
        ELSE IF VersionHasBadChrs(fn_args.version[1]) THEN fn_pc = "exited"
        ELSE fn_pc = "returned" /\ fn_result = fn_args.version[1]

C24_Witness ==
    /\ fn_pc = "returned"
    /\ BeginsWithPeriod(fn_args)
    /\ ~FinalFlag(fn_args)
    /\ fn_result = <<".", "1">>

(***************************************************************************)
(* Properties of ns_cfg.                                                   *)
(***************************************************************************)
MajorOf(python) == Split(python, ".")[1]

MinorOf(python) == Split(python, ".")[2]

\* C25: py3k is true exactly when the major version of the variant's python
\* is 3, py2k exactly when it is 2, and py is the number written by the
\* digits of the major and the minor version, whatever the number of digits
\* of the minor version.
C25_PythonFamilyFlags ==
    fn_pc = "returned" =>
        /\ fn_result.py3k <=> MajorOf(fn_args.python) = <<"3">>
        /\ fn_result.py2k <=> MajorOf(fn_args.python) = <<"2">>
        /\ NatStr(fn_result.py) = MajorOf(fn_args.python) \o MinorOf(fn_args.python)

(***************************************************************************)
(* Frame properties.                                                       *)
(***************************************************************************)
\* C26: from the first parse of parse_until_resolved on, before each
\* re-parse and on every successful return, the final flag of the MetaData
\* has the value it had at entry, which the local `final` holds, whatever
\* extra/final the re-read text carried.
C26_FinalFlagPreserved ==
    pc \in {"while", "body", "check", "strict", "sys_exit", "done"} => Final(md) = final

C26_Witness ==
    /\ pc = "done"
    /\ md.meta_path
    /\ n_permissive >= 2
    /\ Final(md) = final

\* C27: when a finalization pass has run through render_order, render_order
\* holds the entries (keys, order and values) it held when the pass started,
\* in each of the three passes.
C27_PassLeavesRenderOrder ==
    set_pc = "pass_end" => conda_packages = at_pass_start

\* C28: get_output_metadata leaves the name and the requirements of the
\* MetaData it is called on as they were, whatever the output's name and type
C28_ParentUntouched ==
    fn_pc \in {"called", "returned"} =>
        /\ fn_result.self.name = fn_args.self.name
        /\ fn_result.self.requirements = fn_args.self.requirements

(***************************************************************************)
(* Properties of repeated output extraction.                               *)
(***************************************************************************)
\* number of descriptors of the list that bear the top-level name
TopLevelCount(outs) == Cardinality({ i \in DOMAIN outs : outs[i].name = fn_args.name })

AllCallsAgree ==
    \A i \in DOMAIN fn_result.returned : fn_result.returned[i] = fn_result.returned[1]

====
